---------------------------- MODULE Spec2Model ----------------------------
(***************************************************************************)
(* Chain-of-Draft prompt tool: the format enforcer (format.py), the        *)
(* complexity estimator (complexity.py), the approach selector             *)
(* (reasoning.py), the analytics store (analytics.py) and the orchestrator *)
(* (client.py, solve_with_reasoning).                                      *)
(*                                                                         *)
(* A Python str is a sequence of one-character strings.  The character     *)
(* U+2022 (the bullet) is written Bullet.                                  *)
(***************************************************************************)
EXTENDS Integers, Sequences, FiniteSets, TLC

(***************************************************************************)
(* Characters and the str methods the program uses.                        *)
(***************************************************************************)
NL == "\n"
SP == " "
Bullet == "bullet"
\* the characters of the model's alphabet that \s, str.split() and
\* str.strip() treat as whitespace, and those \d treats as digits
WS == {SP, NL}
Digits == {"0", "1", "2", "3", "4", "5", "6", "7", "8", "9"}

Min(S) == CHOOSE x \in S : \A y \in S : x <= y
Max(S) == CHOOSE x \in S : \A y \in S : x >= y

\* the first position j >= i of s whose character is not in C (Len(s)+1 if none):
\* where a greedy C* started at i stops
SpanEnd(s, i, C) ==
    LET stops == {j \in i..Len(s) : s[j] \notin C}
    IN  IF stops = {} THEN Len(s) + 1 ELSE Min(stops)

\* the first position j >= i of s whose character is in C (Len(s)+1 if none)
FindIn(s, i, C) ==
    LET hits == {j \in i..Len(s) : s[j] \in C}
    IN  IF hits = {} THEN Len(s) + 1 ELSE Min(hits)

\* s[i:] of Python, i counted from 0
Drop(s, n) == SubSeq(s, n + 1, Len(s))

\* str.split() with no argument: the maximal runs of non-whitespace.  The
\* words that start at the positions lo..hi, in order (the range is halved so
\* that the evaluation depth stays logarithmic in the length of the text).
RECURSIVE WordsIn(_, _, _)
WordsIn(s, lo, hi) ==
    IF lo > hi THEN <<>>
    ELSE IF lo = hi
    THEN IF s[lo] \notin WS /\ (lo = 1 \/ s[lo - 1] \in WS)
         THEN <<SubSeq(s, lo, FindIn(s, lo, WS) - 1)>>
         ELSE <<>>
    ELSE LET mid == (lo + hi) \div 2
         IN  WordsIn(s, lo, mid) \o WordsIn(s, mid + 1, hi)

Split(s) == WordsIn(s, 1, Len(s))

\* str.split(c) for a one-character separator: the pieces between the
\* separators, empty pieces kept ("".split(c) is [""]).  The pieces that end
\* just before the positions lo..hi (a separator, or the end of the text).
RECURSIVE PiecesIn(_, _, _, _)
PiecesIn(s, lo, hi, c) ==
    IF lo > hi THEN <<>>
    ELSE IF lo = hi
    THEN IF lo = Len(s) + 1 \/ s[lo] = c
         THEN <<SubSeq(s, Max({0} \cup {j \in 1..(lo - 1) : s[j] = c}) + 1, lo - 1)>>
         ELSE <<>>
    ELSE LET mid == (lo + hi) \div 2
         IN  PiecesIn(s, lo, mid, c) \o PiecesIn(s, mid + 1, hi, c)

SplitOn(s, c) == PiecesIn(s, 1, Len(s) + 1, c)

\* str.strip()
Strip(s) ==
    LET b == SpanEnd(s, 1, WS)
        ends == {j \in 1..Len(s) : s[j] \notin WS}
    IN  IF b > Len(s) THEN <<>> ELSE SubSeq(s, b, Max(ends))

\* sep.join(parts)
RECURSIVE JoinFrom(_, _, _)
JoinFrom(parts, i, sep) ==
    IF i > Len(parts) THEN <<>>
    ELSE IF i = Len(parts) THEN parts[i]
    ELSE parts[i] \o sep \o JoinFrom(parts, i + 1, sep)

Join(parts, sep) == JoinFrom(parts, 1, sep)

\* s.startswith(p, i-1): p occurs in s at position i
OccursAt(s, i, p) ==
    /\ i + Len(p) - 1 <= Len(s)
    /\ \A k \in 1..Len(p) : s[i + k - 1] = p[k]

\* p in s
Contains(s, p) == \E i \in 1..(Len(s) + 1) : OccursAt(s, i, p)

RECURSIVE SumSeq(_, _)
SumSeq(seq, i) == IF i > Len(seq) THEN 0 ELSE seq[i] + SumSeq(seq, i + 1)

(***************************************************************************)
(* format.py: FormatEnforcer                                               *)
(***************************************************************************)
StepWord == <<"S", "t", "e", "p">>

\* \d+\. at position i: the position after the dot, 0 when there is no match
NumberDotEnd(s, i) ==
    LET e == SpanEnd(s, i, Digits)
    IN  IF e > i /\ e <= Len(s) /\ s[e] = "." THEN e + 1 ELSE 0

\* Step\s+\d+: at position i: the position after the colon, 0 when no match
StepColonEnd(s, i) ==
    LET w == i + Len(StepWord)
        d == SpanEnd(s, w, WS)
        c == SpanEnd(s, d, Digits)
    IN  IF OccursAt(s, i, StepWord) /\ d > w /\ c > d /\ c <= Len(s) /\ s[c] = ":"
        THEN c + 1 ELSE 0

\* <c>\s+ at position i for a one-character c: the position after the greedy
\* whitespace run, 0 when no match
CharSpaceEnd(s, i, c) ==
    LET e == SpanEnd(s, i + 1, WS)
    IN  IF i <= Len(s) /\ s[i] = c /\ e > i + 1 THEN e ELSE 0

\* \s*<c>\s+ at position i
SpaceCharSpaceEnd(s, i, c) == CharSpaceEnd(s, SpanEnd(s, i, WS), c)

\* ^ under re.MULTILINE: the start of the string or just after a newline
AtLineStart(s, i) == i = 1 \/ (i - 1 <= Len(s) /\ s[i - 1] = NL)

\* self.step_pattern, tried at position i:
\*   (\d+\.\s*|Step\s+\d+:|\n-\s+|\n\*\s+|<bullet>\s+|^\s*-\s+|^\s*\*\s+)
StepPatternAt(s, i) ==
    \/ NumberDotEnd(s, i) # 0
    \/ StepColonEnd(s, i) # 0
    \/ (i <= Len(s) /\ s[i] = NL /\ CharSpaceEnd(s, i + 1, "-") # 0)
    \/ (i <= Len(s) /\ s[i] = NL /\ CharSpaceEnd(s, i + 1, "*") # 0)
    \/ CharSpaceEnd(s, i, Bullet) # 0
    \/ (AtLineStart(s, i) /\ SpaceCharSpaceEnd(s, i, "-") # 0)
    \/ (AtLineStart(s, i) /\ SpaceCharSpaceEnd(s, i, "*") # 0)

\* self.step_pattern.search(reasoning)
step_pattern_search(s) == \E i \in 1..Len(s) : StepPatternAt(s, i)

\* self.step_pattern.match(line)
step_pattern_match(line) == StepPatternAt(line, 1)

\* re.match(r'^\s*\d+\.', line)
IndentedNumberMatch(line) == NumberDotEnd(line, SpanEnd(line, 1, WS)) # 0

\* the length of re.match(r'^(\d+\.\s*|Step\s+\d+:|\s*-\s+|\s*\*\s+|<bullet>\s+)', step)
\* (0 when there is no match: no alternative matches the empty string)
MarkerLen(step) ==
    IF NumberDotEnd(step, 1) # 0
    THEN SpanEnd(step, NumberDotEnd(step, 1), WS) - 1
    ELSE IF StepColonEnd(step, 1) # 0 THEN StepColonEnd(step, 1) - 1
    ELSE IF SpaceCharSpaceEnd(step, 1, "-") # 0 THEN SpaceCharSpaceEnd(step, 1, "-") - 1
    ELSE IF SpaceCharSpaceEnd(step, 1, "*") # 0 THEN SpaceCharSpaceEnd(step, 1, "*") - 1
    ELSE IF CharSpaceEnd(step, 1, Bullet) # 0 THEN CharSpaceEnd(step, 1, Bullet) - 1
    ELSE 0

\* marker = match.group(0) if match else ""
MarkerOf(step) == SubSeq(step, 1, MarkerLen(step))

\* content = step[len(marker):].strip() if marker else step
ContentOf(step) ==
    IF MarkerLen(step) > 0 THEN Strip(Drop(step, MarkerLen(step))) ELSE step

\* the test of format.py:56 that a line opens a new step
OpensStep(line) == step_pattern_match(line) \/ IndentedNumberMatch(line)

\* the loop of format.py:54-65 from line i on, with the parts collected so far
\* and the part being accumulated; then lines 68-69
RECURSIVE WalkLines(_, _, _, _)
WalkLines(lines, i, parts, current_part) ==
    IF i > Len(lines)
    THEN IF current_part # <<>> THEN Append(parts, current_part) ELSE parts
    ELSE IF OpensStep(lines[i])
         THEN WalkLines(lines, i + 1,
                        IF current_part # <<>> THEN Append(parts, current_part)
                                               ELSE parts,
                        lines[i])
         ELSE WalkLines(lines, i + 1, parts,
                        IF current_part # <<>> THEN current_part \o <<NL>> \o lines[i]
                                               ELSE lines[i])

\* [line.strip() for line in lines[i:] if line.strip()]
RECURSIVE StrippedNonBlank(_, _)
StrippedNonBlank(lines, i) ==
    IF i > Len(lines) THEN <<>>
    ELSE (IF Strip(lines[i]) # <<>> THEN <<Strip(lines[i])>> ELSE <<>>)
         \o StrippedNonBlank(lines, i + 1)

\* FormatEnforcer._split_into_steps
_split_into_steps(reasoning) ==
    IF step_pattern_search(reasoning)
    THEN LET parts == WalkLines(SplitOn(reasoning, NL), 1, <<>>, <<>>)
         IN  IF parts # <<>> THEN parts ELSE <<reasoning>>
    ELSE StrippedNonBlank(SplitOn(reasoning, NL), 1)

\* _enforce_step cutting the step's words, its marker counted among them
_enforce_step_marker_counted(step, max_words) ==
    LET words == Split(step)
    IN  IF Len(words) <= max_words THEN step
        ELSE Join(SubSeq(words, 1, max_words), <<SP>>)

\* FormatEnforcer._enforce_step
_enforce_step(step, max_words) ==
    LET words == Split(step)
        content_words == Split(ContentOf(step))
        kept == SubSeq(content_words, 1, Min({max_words, Len(content_words)}))
    IN  IF Len(words) <= max_words THEN step
        ELSE MarkerOf(step) \o Join(kept, <<SP>>)

\* the list enforced_steps that enforce_word_limit builds (format.py:34-40)
EnforcedSteps(reasoning, max_words) ==
    LET steps == _split_into_steps(reasoning)
    IN  SubSeq([i \in 1..Len(steps) |-> _enforce_step(steps[i], max_words)], 1, Len(steps))

\* FormatEnforcer.enforce_word_limit
enforce_word_limit(reasoning, max_words) ==
    Join(EnforcedSteps(reasoning, max_words), <<NL>>)

\* str(i) for an integer i >= 0
RECURSIVE DecimalOf(_)
DecimalOf(i) ==
    LET digit == <<"0", "1", "2", "3", "4", "5", "6", "7", "8", "9">>[(i % 10) + 1]
    IN  IF i < 10 THEN <<digit>> ELSE DecimalOf(i \div 10) \o <<digit>>

\* f"{i}. {content}" of format.py:140-147 for the i-th step
NumberedStep(i, step) ==
    LET content == IF MarkerLen(step) > 0 THEN Strip(Drop(step, MarkerLen(step)))
                                          ELSE Strip(step)
    IN  DecimalOf(i) \o <<".", SP>> \o content

\* FormatEnforcer.format_to_numbered_steps
format_to_numbered_steps(reasoning) ==
    LET steps == _split_into_steps(reasoning)
    IN  Join(SubSeq([i \in 1..Len(steps) |-> NumberedStep(i, steps[i])], 1, Len(steps)), <<NL>>)

\* the per-step word counts of analyze_adherence (format.py:110-118)
StepCounts(reasoning) ==
    LET steps == _split_into_steps(reasoning)
    IN  [i \in 1..Len(steps) |-> Len(Split(ContentOf(steps[i])))]

\* FormatEnforcer.analyze_adherence; a quotient a/b is kept as the pair <<a, b>>
analyze_adherence(reasoning, max_words) ==
    LET step_counts == StepCounts(reasoning)
        n == Len(step_counts)
        within == Cardinality({i \in 1..n : step_counts[i] <= max_words})
    IN  [total_steps |-> n,
         steps_within_limit |-> within,
         average_words_per_step |-> IF n > 0 THEN <<SumSeq(step_counts, 1), n>> ELSE <<0, 1>>,
         max_words_in_any_step |-> IF n > 0 THEN Max({step_counts[i] : i \in 1..n}) ELSE 0,
         adherence_rate |-> IF n > 0 THEN <<within, n>> ELSE <<1, 1>>,
         step_counts |-> step_counts]

(***************************************************************************)
(* complexity.py: ComplexityEstimator                                      *)
(*                                                                         *)
(* The factors are Python floats; they are kept as exact quotients         *)
(* <<numerator, denominator>> with a positive denominator, and round() is  *)
(* Python's round-half-to-even.                                            *)
(***************************************************************************)
UpperCase == <<"A", "B", "C", "D", "E", "F", "G", "H", "I", "J", "K", "L", "M",
               "N", "O", "P", "Q", "R", "S", "T", "U", "V", "W", "X", "Y", "Z">>
LowerCase == <<"a", "b", "c", "d", "e", "f", "g", "h", "i", "j", "k", "l", "m",
               "n", "o", "p", "q", "r", "s", "t", "u", "v", "w", "x", "y", "z">>

LowerChar(c) ==
    IF \E i \in 1..Len(UpperCase) : UpperCase[i] = c
    THEN LowerCase[CHOOSE i \in 1..Len(UpperCase) : UpperCase[i] = c]
    ELSE c

\* str.lower()
Lower(s) == SubSeq([i \in 1..Len(s) |-> LowerChar(s[i])], 1, Len(s))

\* str.count(c) for a one-character c
CountChar(s, c) == Cardinality({i \in 1..Len(s) : s[i] = c})

\* dict.get(key, default)
Get(dict, key, default) == IF key \in DOMAIN dict THEN dict[key] ELSE default

\* a <= b on quotients; min and max of a sequence of quotients
RLe(a, b) == a[1] * b[2] <= b[1] * a[2]
RMinOf(fs) == fs[CHOOSE i \in 1..Len(fs) : \A j \in 1..Len(fs) : RLe(fs[i], fs[j])]
RMaxOf(fs) == fs[CHOOSE i \in 1..Len(fs) : \A j \in 1..Len(fs) : RLe(fs[j], fs[i])]

\* round(n/d) of Python 3 for n >= 0, d > 0: to the nearest integer, a tie to
\* the even one
RoundHalfEven(r) ==
    LET q == r[1] \div r[2]
        rem == r[1] % r[2]
    IN  IF 2 * rem > r[2] THEN q + 1
        ELSE IF 2 * rem < r[2] THEN q
        ELSE IF q % 2 = 0 THEN q ELSE q + 1

\* the domain names of the program's tables
MATH == <<"m", "a", "t", "h">>
LOGIC == <<"l", "o", "g", "i", "c">>
COMMON_SENSE == <<"c", "o", "m", "m", "o", "n", "_", "s", "e", "n", "s", "e">>
PHYSICS == <<"p", "h", "y", "s", "i", "c", "s">>
CHEMISTRY == <<"c", "h", "e", "m", "i", "s", "t", "r", "y">>
BIOLOGY == <<"b", "i", "o", "l", "o", "g", "y">>
CODE == <<"c", "o", "d", "e">>
PUZZLE == <<"p", "u", "z", "z", "l", "e">>
GENERAL == <<"g", "e", "n", "e", "r", "a", "l">>
DEFAULT == <<"d", "e", "f", "a", "u", "l", "t">>

\* ComplexityEstimator.domain_base_limits
domain_base_limits ==
       MATH :> 6
    @@ LOGIC :> 5
    @@ COMMON_SENSE :> 4
    @@ PHYSICS :> 7
    @@ CHEMISTRY :> 6
    @@ BIOLOGY :> 5
    @@ CODE :> 8
    @@ PUZZLE :> 5
    @@ GENERAL :> 5

\* ComplexityEstimator.complexity_indicators
\* math: integral, derivative, equation, proof, theorem, calculus, matrix, vector, linear algebra, probability, statistics, geometric series, differential, polynomial, factorial
math_indicators ==
    <<<<"i", "n", "t", "e", "g", "r", "a", "l">>,
      <<"d", "e", "r", "i", "v", "a", "t", "i", "v", "e">>,
      <<"e", "q", "u", "a", "t", "i", "o", "n">>,
      <<"p", "r", "o", "o", "f">>,
      <<"t", "h", "e", "o", "r", "e", "m">>,
      <<"c", "a", "l", "c", "u", "l", "u", "s">>,
      <<"m", "a", "t", "r", "i", "x">>,
      <<"v", "e", "c", "t", "o", "r">>,
      <<"l", "i", "n", "e", "a", "r", " ", "a", "l", "g", "e", "b", "r", "a">>,
      <<"p", "r", "o", "b", "a", "b", "i", "l", "i", "t", "y">>,
      <<"s", "t", "a", "t", "i", "s", "t", "i", "c", "s">>,
      <<"g", "e", "o", "m", "e", "t", "r", "i", "c", " ", "s", "e", "r", "i", "e", "s">>,
      <<"d", "i", "f", "f", "e", "r", "e", "n", "t", "i", "a", "l">>,
      <<"p", "o", "l", "y", "n", "o", "m", "i", "a", "l">>,
      <<"f", "a", "c", "t", "o", "r", "i", "a", "l">> >>

\* logic: if and only if, necessary condition, sufficient, contradiction, syllogism, premise, fallacy, converse, counterexample, logical equivalence, negation, disjunction, conjunction
logic_indicators ==
    <<<<"i", "f", " ", "a", "n", "d", " ", "o", "n", "l", "y", " ", "i", "f">>,
      <<"n", "e", "c", "e", "s", "s", "a", "r", "y", " ", "c", "o", "n", "d", "i", "t", "i", "o", "n">>,
      <<"s", "u", "f", "f", "i", "c", "i", "e", "n", "t">>,
      <<"c", "o", "n", "t", "r", "a", "d", "i", "c", "t", "i", "o", "n">>,
      <<"s", "y", "l", "l", "o", "g", "i", "s", "m">>,
      <<"p", "r", "e", "m", "i", "s", "e">>,
      <<"f", "a", "l", "l", "a", "c", "y">>,
      <<"c", "o", "n", "v", "e", "r", "s", "e">>,
      <<"c", "o", "u", "n", "t", "e", "r", "e", "x", "a", "m", "p", "l", "e">>,
      <<"l", "o", "g", "i", "c", "a", "l", " ", "e", "q", "u", "i", "v", "a", "l", "e", "n", "c", "e">>,
      <<"n", "e", "g", "a", "t", "i", "o", "n">>,
      <<"d", "i", "s", "j", "u", "n", "c", "t", "i", "o", "n">>,
      <<"c", "o", "n", "j", "u", "n", "c", "t", "i", "o", "n">> >>

\* code: recursion, algorithm, complexity, optimization, function, class, object, inheritance, polymorphism, data structure, binary tree, hash table, graph, dynamic programming
code_indicators ==
    <<<<"r", "e", "c", "u", "r", "s", "i", "o", "n">>,
      <<"a", "l", "g", "o", "r", "i", "t", "h", "m">>,
      <<"c", "o", "m", "p", "l", "e", "x", "i", "t", "y">>,
      <<"o", "p", "t", "i", "m", "i", "z", "a", "t", "i", "o", "n">>,
      <<"f", "u", "n", "c", "t", "i", "o", "n">>,
      <<"c", "l", "a", "s", "s">>,
      <<"o", "b", "j", "e", "c", "t">>,
      <<"i", "n", "h", "e", "r", "i", "t", "a", "n", "c", "e">>,
      <<"p", "o", "l", "y", "m", "o", "r", "p", "h", "i", "s", "m">>,
      <<"d", "a", "t", "a", " ", "s", "t", "r", "u", "c", "t", "u", "r", "e">>,
      <<"b", "i", "n", "a", "r", "y", " ", "t", "r", "e", "e">>,
      <<"h", "a", "s", "h", " ", "t", "a", "b", "l", "e">>,
      <<"g", "r", "a", "p", "h">>,
      <<"d", "y", "n", "a", "m", "i", "c", " ", "p", "r", "o", "g", "r", "a", "m", "m", "i", "n", "g">> >>

\* physics: quantum, relativity, momentum, force, acceleration, energy, thermodynamics, electric field, magnetic field, potential, entropy, wavelength, frequency
physics_indicators ==
    <<<<"q", "u", "a", "n", "t", "u", "m">>,
      <<"r", "e", "l", "a", "t", "i", "v", "i", "t", "y">>,
      <<"m", "o", "m", "e", "n", "t", "u", "m">>,
      <<"f", "o", "r", "c", "e">>,
      <<"a", "c", "c", "e", "l", "e", "r", "a", "t", "i", "o", "n">>,
      <<"e", "n", "e", "r", "g", "y">>,
      <<"t", "h", "e", "r", "m", "o", "d", "y", "n", "a", "m", "i", "c", "s">>,
      <<"e", "l", "e", "c", "t", "r", "i", "c", " ", "f", "i", "e", "l", "d">>,
      <<"m", "a", "g", "n", "e", "t", "i", "c", " ", "f", "i", "e", "l", "d">>,
      <<"p", "o", "t", "e", "n", "t", "i", "a", "l">>,
      <<"e", "n", "t", "r", "o", "p", "y">>,
      <<"w", "a", "v", "e", "l", "e", "n", "g", "t", "h">>,
      <<"f", "r", "e", "q", "u", "e", "n", "c", "y">> >>

\* chemistry: reaction, molecule, compound, element, equilibrium, acid, base, oxidation, reduction, catalyst, isomer
chemistry_indicators ==
    <<<<"r", "e", "a", "c", "t", "i", "o", "n">>,
      <<"m", "o", "l", "e", "c", "u", "l", "e">>,
      <<"c", "o", "m", "p", "o", "u", "n", "d">>,
      <<"e", "l", "e", "m", "e", "n", "t">>,
      <<"e", "q", "u", "i", "l", "i", "b", "r", "i", "u", "m">>,
      <<"a", "c", "i", "d">>,
      <<"b", "a", "s", "e">>,
      <<"o", "x", "i", "d", "a", "t", "i", "o", "n">>,
      <<"r", "e", "d", "u", "c", "t", "i", "o", "n">>,
      <<"c", "a", "t", "a", "l", "y", "s", "t">>,
      <<"i", "s", "o", "m", "e", "r">> >>

\* biology: gene, protein, enzyme, cell, tissue, organ, system, metabolism, photosynthesis, respiration, homeostasis
biology_indicators ==
    <<<<"g", "e", "n", "e">>,
      <<"p", "r", "o", "t", "e", "i", "n">>,
      <<"e", "n", "z", "y", "m", "e">>,
      <<"c", "e", "l", "l">>,
      <<"t", "i", "s", "s", "u", "e">>,
      <<"o", "r", "g", "a", "n">>,
      <<"s", "y", "s", "t", "e", "m">>,
      <<"m", "e", "t", "a", "b", "o", "l", "i", "s", "m">>,
      <<"p", "h", "o", "t", "o", "s", "y", "n", "t", "h", "e", "s", "i", "s">>,
      <<"r", "e", "s", "p", "i", "r", "a", "t", "i", "o", "n">>,
      <<"h", "o", "m", "e", "o", "s", "t", "a", "s", "i", "s">> >>

\* puzzle: constraint, sequence, pattern, rules, probability, combination, permutation, optimal, strategy
puzzle_indicators ==
    <<<<"c", "o", "n", "s", "t", "r", "a", "i", "n", "t">>,
      <<"s", "e", "q", "u", "e", "n", "c", "e">>,
      <<"p", "a", "t", "t", "e", "r", "n">>,
      <<"r", "u", "l", "e", "s">>,
      <<"p", "r", "o", "b", "a", "b", "i", "l", "i", "t", "y">>,
      <<"c", "o", "m", "b", "i", "n", "a", "t", "i", "o", "n">>,
      <<"p", "e", "r", "m", "u", "t", "a", "t", "i", "o", "n">>,
      <<"o", "p", "t", "i", "m", "a", "l">>,
      <<"s", "t", "r", "a", "t", "e", "g", "y">> >>

complexity_indicators ==
       MATH :> math_indicators
    @@ LOGIC :> logic_indicators
    @@ CODE :> code_indicators
    @@ PHYSICS :> physics_indicators
    @@ CHEMISTRY :> chemistry_indicators
    @@ BIOLOGY :> biology_indicators
    @@ PUZZLE :> puzzle_indicators

\* ["prove", "proof", "theorem"] and ["implement", "function", "algorithm"]
math_terms ==
    << <<"p", "r", "o", "v", "e">>, <<"p", "r", "o", "o", "f">>,
       <<"t", "h", "e", "o", "r", "e", "m">> >>
code_terms ==
    << <<"i", "m", "p", "l", "e", "m", "e", "n", "t">>,
       <<"f", "u", "n", "c", "t", "i", "o", "n">>,
       <<"a", "l", "g", "o", "r", "i", "t", "h", "m">> >>

\* base_limit = self.domain_base_limits.get(domain.lower(), 5)
base_limit(domain) == Get(domain_base_limits, Lower(domain), 5)

\* len(problem.split())
word_count(problem) == Len(Split(problem))

\* length_factor = min(len(problem.split()) / 50, 2)
length_factor(problem) ==
    LET n == word_count(problem)
    IN  RMinOf(<< <<n, 50>>, <<2, 1>> >>)

\* the number of the domain's indicators that occur in problem.lower()
indicator_count(problem, domain) ==
    LET indicators == Get(complexity_indicators, Lower(domain), <<>>)
        text == Lower(problem)
    IN  Cardinality({i \in 1..Len(indicators) : Contains(text, Lower(indicators[i]))})

\* indicator_factor = min(1 + (indicator_count * 0.2), 1.8)
indicator_factor(problem, domain) ==
    LET k == indicator_count(problem, domain)
    IN  RMinOf(<< <<5 + k, 5>>, <<9, 5>> >>)

\* the question marks left out of account
question_factor_ignored(problem) == <<5, 5>>

\* question_factor = 1 + (problem.count("?") * 0.2)
question_factor(problem) ==
    LET q == CountChar(problem, "?")
    IN  <<5 + q, 5>>

\* len([s for s in problem.split(".") if s.strip()])
sentence_count(problem) ==
    LET pieces == SplitOn(problem, ".")
    IN  Cardinality({i \in 1..Len(pieces) : Strip(pieces[i]) # <<>>})

\* the sentence factor without its cap
sentence_complexity_factor_uncapped(problem) ==
    <<word_count(problem), 15 * Max({sentence_count(problem), 1})>>

\* words_per_sentence = len(problem.split()) / max(len(sentences), 1)
\* sentence_complexity_factor = min(words_per_sentence / 15, 1.5)
sentence_complexity_factor(problem) ==
    LET n == word_count(problem)
        m == Max({sentence_count(problem), 1})
    IN  RMinOf(<< <<n, 15 * m>>, <<3, 2>> >>)

\* any(term in problem.lower() for term in terms)
AnyTermIn(problem, terms) ==
    LET text == Lower(problem)
    IN  \E i \in 1..Len(terms) : Contains(text, terms[i])

\* domain_factor (complexity.py:92-96)
domain_factor(problem, domain) ==
    IF Lower(domain) = MATH /\ AnyTermIn(problem, math_terms) THEN <<13, 10>>
    ELSE IF Lower(domain) = CODE /\ AnyTermIn(problem, code_terms) THEN <<6, 5>>
    ELSE <<1, 1>>

\* the factors added up instead of the largest one taken
impact_factor_summed(problem, domain) ==
    LET l == length_factor(problem)
        k == indicator_factor(problem, domain)
        q == question_factor(problem)
        c == sentence_complexity_factor(problem)
        d == domain_factor(problem, domain)
        den == l[2] * k[2] * q[2] * c[2] * d[2]
    IN  << l[1] * (den \div l[2]) + k[1] * (den \div k[2]) + q[1] * (den \div q[2])
           + c[1] * (den \div c[2]) + d[1] * (den \div d[2]), den >>

\* impact_factor = max(length_factor, indicator_factor, question_factor,
\*                     sentence_complexity_factor, domain_factor)
impact_factor(problem, domain) ==
    LET fs == << length_factor(problem), indicator_factor(problem, domain),
                 question_factor(problem), sentence_complexity_factor(problem),
                 domain_factor(problem, domain) >>
    IN  RMaxOf(fs)

\* adjusted_limit = round(base_limit * impact_factor)
adjusted_limit(problem, domain) ==
    LET f == impact_factor(problem, domain)
        r == <<base_limit(domain) * f[1], f[2]>>
    IN  RoundHalfEven(r)

\* the estimate without the cap at 10 (a variant of estimate_complexity)
estimate_complexity_uncapped(problem, domain) ==
    LET adjusted == adjusted_limit(problem, domain)
    IN  Max({3, adjusted})

\* ComplexityEstimator.estimate_complexity
estimate_complexity(problem, domain) ==
    LET adjusted == adjusted_limit(problem, domain)
    IN  Max({3, Min({adjusted, 10})})

\* found_indicators of analyze_problem, from the i-th indicator on
RECURSIVE FoundFrom(_, _, _)
FoundFrom(indicators, text, i) ==
    IF i > Len(indicators) THEN <<>>
    ELSE (IF Contains(text, Lower(indicators[i])) THEN <<indicators[i]>> ELSE <<>>)
         \o FoundFrom(indicators, text, i + 1)

\* ComplexityEstimator.analyze_problem; floats are kept as quotients
analyze_problem(problem, domain) ==
    LET found_indicators == FoundFrom(Get(complexity_indicators, Lower(domain), <<>>), Lower(problem), 1)
        k == Len(found_indicators)
        indicator == RMinOf(<< <<5 + k, 5>>, <<9, 5>> >>)
        sentences == sentence_count(problem)
        f == RMaxOf(<< length_factor(problem), indicator, question_factor(problem),
                       sentence_complexity_factor(problem) >>)
    IN  [domain |-> domain,
         base_limit |-> base_limit(domain),
         word_count |-> word_count(problem),
         length_factor |-> length_factor(problem),
         indicator_count |-> k,
         found_indicators |-> found_indicators,
         indicator_factor |-> indicator,
         question_count |-> CountChar(problem, "?"),
         question_factor |-> question_factor(problem),
         sentence_count |-> sentences,
         words_per_sentence |-> <<word_count(problem), Max({sentences, 1})>>,
         sentence_complexity_factor |-> sentence_complexity_factor(problem),
         estimated_complexity |->
             Max({3, Min({RoundHalfEven(<<base_limit(domain) * f[1], f[2]>>), 10})})]

(***************************************************************************)
(* Optional values: Python's None is Nothing, any other value v is         *)
(* Just(v).                                                                *)
(***************************************************************************)
Nothing == <<>>
Just(v) == <<v>>
The(x) == x[1]

CoD == "CoD"
CoT == "CoT"

(***************************************************************************)
(* analytics.py: AnalyticsService.  The table inference_records is the     *)
(* sequence of its rows in insertion order (the id is the index); the      *)
(* wall-clock columns timestamp and execution_time_ms are left out.        *)
(***************************************************************************)

\* AnalyticsService._check_correctness
_check_correctness(answer, expected_answer) ==
    IF answer = <<>> \/ expected_answer = <<>> THEN Nothing
    ELSE IF Lower(Strip(answer)) = Lower(Strip(expected_answer)) THEN Just(1)
    ELSE Just(0)

\* the row AnalyticsService.record_inference adds; expected_answer and
\* metadata are optional
InferenceRecord(problem, domain, approach, word_limit, tokens_used, reasoning, answer, expected_answer, metadata) ==
    [problem_text |-> problem,
     domain |-> domain,
     approach |-> approach,
     word_limit |-> word_limit,
     tokens_used |-> tokens_used,
     reasoning_steps |-> reasoning,
     answer |-> answer,
     expected_answer |-> expected_answer,
     is_correct |-> IF expected_answer # Nothing /\ The(expected_answer) # <<>>
                    THEN _check_correctness(answer, The(expected_answer))
                    ELSE Nothing,
     meta_data |-> metadata]

\* an average that counts a row without a correctness value as a wrong answer
\* (a variant of AvgIsCorrect)
AvgIsCorrectNullAsWrong(records, group) ==
    LET right == {i \in group : records[i].is_correct = Just(1)}
    IN  IF group = {} THEN Nothing ELSE Just(<<Cardinality(right), Cardinality(group)>>)

\* func.avg(InferenceRecord.is_correct) over the rows of one group: the mean
\* of the non-null values as the quotient <<sum, count>>, NULL when there is none
AvgIsCorrect(records, group) ==
    LET known == {i \in group : records[i].is_correct # Nothing}
        right == {i \in known : The(records[i].is_correct) = 1}
    IN  IF known = {} THEN Nothing ELSE Just(<<Cardinality(right), Cardinality(known)>>)

\* AnalyticsService.get_performance_by_domain: one result row for each
\* (domain, approach) group of the rows that pass the filter; the query has
\* no ORDER BY, so the result is the set of its rows
get_performance_by_domain(records, domain) ==
    LET passing == {i \in 1..Len(records) : domain = <<>> \/ records[i].domain = domain}
        groups == {<<records[i].domain, records[i].approach>> : i \in passing}
        RowsOf(g) == {i \in passing : records[i].domain = g[1] /\ records[i].approach = g[2]}
    IN  { [domain |-> g[1],
           approach |-> g[2],
           accuracy |-> AvgIsCorrect(records, RowsOf(g)),
           count |-> Cardinality(RowsOf(g))] : g \in groups }

(***************************************************************************)
(* reasoning.py: ReasoningSelector.  default_preferences maps a domain     *)
(* name to a dict object; the objects live in policy_objects and are       *)
(* named by their index.  A threshold 0.85 is the quotient <<85, 100>>.    *)
(***************************************************************************)

\* the entries of self.default_preferences set by __init__, in source order
InitialPolicyObjects ==
    << [complexity_threshold |-> 7, accuracy_threshold |-> <<85, 100>>],
       [complexity_threshold |-> 8, accuracy_threshold |-> <<90, 100>>],
       [complexity_threshold |-> 7, accuracy_threshold |-> <<85, 100>>],
       [complexity_threshold |-> 7, accuracy_threshold |-> <<85, 100>>],
       [complexity_threshold |-> 6, accuracy_threshold |-> <<85, 100>>],
       [complexity_threshold |-> 6, accuracy_threshold |-> <<90, 100>>],
       [complexity_threshold |-> 7, accuracy_threshold |-> <<85, 100>>],
       [complexity_threshold |-> 6, accuracy_threshold |-> <<80, 100>>] >>

InitialPreferences ==
       MATH :> 1
    @@ CODE :> 2
    @@ PHYSICS :> 3
    @@ CHEMISTRY :> 4
    @@ BIOLOGY :> 5
    @@ LOGIC :> 6
    @@ PUZZLE :> 7
    @@ DEFAULT :> 8

\* a < b on quotients
RLt(a, b) == a[1] * b[2] < b[1] * a[2]

\* self.default_preferences.get(domain.lower(), self.default_preferences["default"])
\* (reasoning.py:69): the dict object select_approach holds
PrefsOf(preferences, domain) ==
    Get(preferences, Lower(domain), preferences[DEFAULT])

\* a comparison that lets a score one above the threshold pass (a variant of
\* ExceedsThreshold)
ExceedsThresholdByTwo(complexity_score, prefs) ==
    complexity_score > prefs.complexity_threshold + 1

\* reasoning.py:77  complexity_score > prefs["complexity_threshold"]
ExceedsThreshold(complexity_score, prefs) ==
    complexity_score > prefs.complexity_threshold

\* reasoning.py:82-83  next((p["accuracy"] for p in domain_performance
\*                           if p["approach"] == "CoD"), None):
\* the values the expression can take, one for each CoD row that may come first
CodAccuracies(domain_performance) ==
    LET cod_rows == {p \in domain_performance : p.approach = CoD}
    IN  IF cod_rows = {} THEN {Nothing} ELSE {p.accuracy : p \in cod_rows}

\* reasoning.py:85  cod_accuracy is not None and cod_accuracy < prefs["accuracy_threshold"]
BelowAccuracy(cod_accuracy, prefs) ==
    cod_accuracy # Nothing /\ RLt(The(cod_accuracy), prefs.accuracy_threshold)

\* the return values of select_approach (reasoning.py:78, 86, 89); an f-string
\* is the tuple of its pieces
ComplexityVerdict(complexity_score, prefs) ==
    <<CoT, <<"Problem complexity (", complexity_score, ") exceeds threshold (",
             prefs.complexity_threshold, ")">> >>
AccuracyVerdict(cod_accuracy, prefs) ==
    <<CoT, <<"Historical accuracy with CoD (", The(cod_accuracy), ") below threshold (",
             prefs.accuracy_threshold, ")">> >>
DefaultVerdict == <<CoD, <<"Default to Chain-of-Draft for efficiency">> >>

\* reasoning.py:85-89  the return value once the query's CoD accuracy is known
VerdictAfterQuery(cod_accuracy, prefs) ==
    IF BelowAccuracy(cod_accuracy, prefs) THEN AccuracyVerdict(cod_accuracy, prefs)
    ELSE DefaultVerdict

\* ReasoningSelector.select_approach run without interruption: the values it
\* can return, one for each CoD row the query may return first
select_approach(preferences, objects, records, problem, domain, complexity_score) ==
    LET prefs == objects[PrefsOf(preferences, domain)]
        score == IF complexity_score = Nothing THEN estimate_complexity(problem, domain)
                 ELSE The(complexity_score)
    IN  IF ExceedsThreshold(score, prefs) THEN {ComplexityVerdict(score, prefs)}
        ELSE {VerdictAfterQuery(a, prefs) :
                  a \in CodAccuracies(get_performance_by_domain(records, domain))}

\* update_preferences binding a new domain to the "default" object itself
\* instead of a copy of it (a variant of update_preferences)
update_preferences_shared(preferences, objects, domain, complexity_threshold, accuracy_threshold) ==
    LET preferences1 == IF domain \notin DOMAIN preferences
                        THEN preferences @@ (domain :> preferences[DEFAULT])
                        ELSE preferences
        id == preferences1[domain]
        objects2 == IF complexity_threshold # Nothing
                    THEN [objects EXCEPT ![id].complexity_threshold = The(complexity_threshold)]
                    ELSE objects
        objects3 == IF accuracy_threshold # Nothing
                    THEN [objects2 EXCEPT ![id].accuracy_threshold = The(accuracy_threshold)]
                    ELSE objects2
    IN  [preferences |-> preferences1, objects |-> objects3]

\* update_preferences handing the "default" object over to a new domain, whose
\* name replaces "default" in the mapping (a variant of update_preferences)
update_preferences_moved(preferences, objects, domain, complexity_threshold, accuracy_threshold) ==
    IF domain \in DOMAIN preferences \/ DEFAULT \notin DOMAIN preferences
    THEN [preferences |-> preferences, objects |-> objects]
    ELSE [preferences |->
              [k \in (DOMAIN preferences \ {DEFAULT}) \cup {domain} |->
                  IF k = domain THEN preferences[DEFAULT] ELSE preferences[k]],
          objects |-> objects]

\* ReasoningSelector.update_preferences: the mapping and the objects after the call
update_preferences(preferences, objects, domain, complexity_threshold, accuracy_threshold) ==
    LET absent == domain \notin DOMAIN preferences
        objects1 == IF absent THEN Append(objects, objects[preferences[DEFAULT]])
                              ELSE objects
        preferences1 == IF absent THEN preferences @@ (domain :> Len(objects1))
                                  ELSE preferences
        id == preferences1[domain]
        objects2 == IF complexity_threshold # Nothing
                    THEN [objects1 EXCEPT ![id].complexity_threshold = The(complexity_threshold)]
                    ELSE objects1
        objects3 == IF accuracy_threshold # Nothing
                    THEN [objects2 EXCEPT ![id].accuracy_threshold = The(accuracy_threshold)]
                    ELSE objects2
    IN  [preferences |-> preferences1, objects |-> objects3]

\* ReasoningSelector.get_preferences: the object returned for a domain, or the
\* whole mapping when the argument is None or empty
get_preferences(preferences, domain) ==
    IF domain # Nothing /\ The(domain) # <<>>
    THEN <<"dict", Get(preferences, The(domain), preferences[DEFAULT])>>
    ELSE <<"default_preferences">>

(***************************************************************************)
(* client.py: ChainOfDraftClient.solve_with_reasoning and what it calls.   *)
(* A settings dict is a function from setting names to values; a prompt is *)
(* the tuple of the pieces of its text.                                    *)
(***************************************************************************)

\* self.default_settings (client.py:203-209); the client is built without
\* keyword arguments, so self.settings is the same dict
default_settings ==
       "max_words_per_step" :> Just(8)
    @@ "enforce_format" :> TRUE
    @@ "adaptive_word_limit" :> TRUE
    @@ "track_analytics" :> TRUE
    @@ "max_tokens" :> Just(200000)

\* local_settings = {**self.settings, **kwargs}
LocalSettings(kwargs) == kwargs @@ default_settings

\* a client that never takes the caller's approach
ApproachNeverGiven(local_settings) == FALSE

\* client.py:396  if local_settings.get("approach")
ApproachGiven(local_settings) ==
    /\ "approach" \in DOMAIN local_settings
    /\ local_settings["approach"] # Nothing
    /\ The(local_settings["approach"]) # ""

\* client.py:407-410  the word limit; Nothing when the setting holds None
WordLimit(kwargs, approach, complexity) ==
    IF LocalSettings(kwargs)["adaptive_word_limit"] /\ approach = CoD
    THEN Just(complexity)
    ELSE LocalSettings(kwargs)["max_words_per_step"]

\* the rows ExampleDatabase._load_initial_examples seeds (examples.py:50-99);
\* each text is one piece named after its example
InitialExamples ==
    << [problem |-> "lollipops", reasoning |-> "lollipops CoT", answer |-> "8 lollipops",
        domain |-> MATH, approach |-> CoT],
       [problem |-> "lollipops", reasoning |-> "lollipops CoD", answer |-> "8 lollipops",
        domain |-> MATH, approach |-> CoD],
       [problem |-> "coin", reasoning |-> "coin CoT", answer |-> "No",
        domain |-> LOGIC, approach |-> CoT],
       [problem |-> "coin", reasoning |-> "coin CoD", answer |-> "No",
        domain |-> LOGIC, approach |-> CoD],
       [problem |-> "car", reasoning |-> "car CoT", answer |-> "12 mph/s",
        domain |-> PHYSICS, approach |-> CoT],
       [problem |-> "car", reasoning |-> "car CoD", answer |-> "12 mph/s",
        domain |-> PHYSICS, approach |-> CoD] >>

\* ExampleDatabase.get_examples(domain, approach): at most three matching rows
get_examples(domain, approach) ==
    LET RECURSIVE Matching(_)
        Matching(i) ==
            IF i > Len(InitialExamples) THEN <<>>
            ELSE (IF InitialExamples[i].domain = domain /\ InitialExamples[i].approach = approach
                  THEN <<InitialExamples[i]>> ELSE <<>>) \o Matching(i + 1)
        rows == Matching(1)
    IN  SubSeq(rows, 1, Min({3, Len(rows)}))

\* example_text of create_cod_prompt and create_cot_prompt
RECURSIVE ExampleText(_, _)
ExampleText(examples, i) ==
    IF i > Len(examples) THEN <<>>
    ELSE <<"\nProblem: ", examples[i].problem, "\nSolution:\n", examples[i].reasoning,
           "\n####\n", examples[i].answer, "\n">> \o ExampleText(examples, i + 1)

\* the "user" entry of both prompts
UserPrompt(problem, examples) ==
    IF examples # <<>>
    THEN ExampleText(examples, 1) \o <<"\n", "Problem: ", problem>>
    ELSE <<"Problem: ", problem>>

\* reasoning.py:109-148  create_cod_prompt
create_cod_prompt(problem, domain, word_limit, examples) ==
    [system |->
         <<"You are an expert problem solver using Chain of Draft reasoning. Think step by step, but only keep a minimum draft for each thinking step, with ",
           word_limit, " words at most per step. Return the answer at the end after '####'.">>
         \o (IF Lower(domain) = MATH
             THEN <<"\nUse mathematical notation to keep steps concise.">>
             ELSE IF Lower(domain) = CODE
             THEN <<"\nUse pseudocode or short code snippets when appropriate.">>
             ELSE IF Lower(domain) = PHYSICS
             THEN <<"\nUse equations and physical quantities with units.">>
             ELSE <<>>),
     user |-> UserPrompt(problem, examples)]

\* reasoning.py:151-187  create_cot_prompt
create_cot_prompt(problem, domain, examples) ==
    [system |->
         <<"Think step by step to answer the following question. Return the answer at the end of the response after a separator ####.">>
         \o (IF Lower(domain) = MATH
             THEN <<"\nMake sure to show all mathematical operations clearly.">>
             ELSE IF Lower(domain) = CODE
             THEN <<"\nBe detailed about algorithms and implementation steps.">>
             ELSE IF Lower(domain) = PHYSICS
             THEN <<"\nExplain physical principles and equations in detail.">>
             ELSE <<>>),
     user |-> UserPrompt(problem, examples)]

\* client.py:422-427  the arguments of self.llm_client.chat
ChatRequest(prompt, local_settings) ==
    [messages |-> << [role |-> "user", content |-> prompt.user] >>,
     model |-> Get(local_settings, "model", "claude-3-7-sonnet-latest"),
     max_tokens |-> Get(local_settings, "max_tokens", Just(500)),
     temperature |-> Get(local_settings, "temperature", <<7, 10>>)]

\* the separator of reasoning and answer
Separator == <<"#", "#", "#", "#">>

\* str.split(sep) for a separator of one or more characters
RECURSIVE SplitOnString(_, _)
SplitOnString(s, sep) ==
    LET hits == {i \in 1..Len(s) : OccursAt(s, i, sep)}
    IN  IF hits = {} THEN <<s>>
        ELSE <<SubSeq(s, 1, Min(hits) - 1)>>
             \o SplitOnString(Drop(s, Min(hits) + Len(sep) - 1), sep)

NoClearAnswer == <<"No clear answer found">>

\* client.py:431-434  the reasoning and the answer in the response
ResponseReasoning(full_response) == Strip(SplitOnString(full_response, Separator)[1])
ResponseAnswer(full_response) ==
    LET parts == SplitOnString(full_response, Separator)
    IN  IF Len(parts) > 1 THEN Strip(parts[2]) ELSE NoClearAnswer

\* enforcement that does not look at the approach
EnforcingAnyApproach(local_settings, approach) ==
    local_settings["enforce_format"]

\* client.py:437  if local_settings["enforce_format"] and approach == "CoD"
Enforcing(local_settings, approach) ==
    local_settings["enforce_format"] /\ approach = CoD

\* client.py:438-439 with word_limit None: _enforce_step compares
\* len(words) <= None for the first step and raises TypeError; a text without
\* steps passes through both calls, which then never read the limit
EnforcementRaises(local_settings, approach, word_limit, reasoning) ==
    /\ Enforcing(local_settings, approach)
    /\ word_limit = Nothing
    /\ _split_into_steps(reasoning) # <<>>

\* client.py:437-441  the reasoning after enforcement
EnforcedReasoning(local_settings, approach, word_limit, reasoning) ==
    IF ~Enforcing(local_settings, approach) THEN reasoning
    ELSE IF word_limit = Nothing THEN <<>>
    ELSE enforce_word_limit(reasoning, The(word_limit))

\* client.py:437-441  the adherence report, Nothing when there is none
AdherenceReport(local_settings, approach, word_limit, reasoning) ==
    IF ~Enforcing(local_settings, approach) THEN Nothing
    ELSE IF word_limit = Nothing
    THEN Just(analyze_adherence(<<>>, 0))
    ELSE Just(analyze_adherence(
                  enforce_word_limit(reasoning, The(word_limit)), The(word_limit)))

\* client.py:462-469  the dict solve_with_reasoning returns
SolveResult(reasoning, answer, full_response, approach, complexity, word_limit) ==
    [reasoning_steps |-> reasoning,
     final_answer |-> answer,
     token_count |-> Len(Split(full_response)),
     approach |-> approach,
     complexity |-> complexity,
     word_limit |-> word_limit]

\* client.py:281-282 and 333-334  the content of the last message whose role is
\* "user", "" when there is none
RECURSIVE LastUserFrom(_, _)
LastUserFrom(messages, i) ==
    IF i = 0 THEN <<>>
    ELSE IF messages[i].role = "user" THEN messages[i].content
    ELSE LastUserFrom(messages, i - 1)

last_user_msg(messages) == LastUserFrom(messages, Len(messages))

\* the problem text an interface hands to solve_with_reasoning: the prompt of
\* completions (client.py:231), the last user message of chat and messages;
\* "" when the caller gave none
ProblemOf(entry, input) ==
    IF input = Nothing THEN <<>>
    ELSE IF entry = "completions" THEN The(input)
    ELSE last_user_msg(The(input))

\* client.py:227-228, 277-285, 329-337  the ValueError an interface raises
\* for its input, Nothing when it accepts the input
InputError(entry, input) ==
    IF entry = "completions"
    THEN IF input = Nothing \/ The(input) = <<>>
         THEN Just("ValueError: Prompt is required") ELSE Nothing
    ELSE IF input = Nothing \/ The(input) = <<>>
         THEN Just("ValueError: Messages are required")
         ELSE IF last_user_msg(The(input)) = <<>>
         THEN Just("ValueError: No user message found in the provided messages")
         ELSE Nothing

\* client.py:237-242  the exception the call of solve_with_reasoning raises
\* before the method body runs: self.settings has no "model", so a falsy
\* model is a KeyError, and a "domain" among the keyword arguments is a second
\* value for the positional one
CallError(model, kwargs) ==
    IF model = Nothing \/ The(model) = "" THEN Just("KeyError: 'model'")
    ELSE IF "domain" \in DOMAIN kwargs
    THEN Just("TypeError: got multiple values for argument 'domain'")
    ELSE Nothing

\* sum(len(m.get("content", "").split()) for m in messages)
RECURSIVE MessageWords(_)
MessageWords(messages) ==
    IF messages = <<>> THEN 0
    ELSE Len(Split(Head(messages).content)) + MessageWords(Tail(messages))

\* f"{result['reasoning_steps']}\n\n####\n{result['final_answer']}"
ResponseContent(result) ==
    result.reasoning_steps \o <<NL, NL>> \o Separator \o <<NL>> \o result.final_answer

\* client.py:245-263, 300-318, 351-372  the response of an interface, without
\* its random id and its time stamp
WrapperResponse(entry, model, input, result) ==
    IF entry = "completions"
    THEN [object |-> "completion", model |-> The(model),
          text |-> result.final_answer,
          prompt_tokens |-> Len(Split(The(input))),
          completion_tokens |-> result.token_count,
          total_tokens |-> Len(Split(The(input))) + result.token_count,
          reasoning |-> result.reasoning_steps,
          approach |-> result.approach]
    ELSE IF entry = "chat"
    THEN [object |-> "chat.completion", model |-> The(model),
          content |-> ResponseContent(result),
          prompt_tokens |-> MessageWords(The(input)),
          completion_tokens |-> result.token_count,
          total_tokens |-> MessageWords(The(input)) + result.token_count]
    ELSE [type |-> "message", model |-> The(model),
          text |-> ResponseContent(result),
          input_tokens |-> MessageWords(The(input)),
          output_tokens |-> result.token_count,
          reasoning_approach |-> result.approach,
          word_limit |-> result.word_limit]

(***************************************************************************)
(* The inputs of the format enforcer: texts of up to MaxLines lines, the    *)
(* first drawn from ReasoningLines and the later ones from FollowingLines, *)
(* and word limits 1..MaxLimit.                                            *)
(***************************************************************************)
MaxLines == 3
MaxLimit == 3

ReasoningLines ==
    { <<>>,
      <<"a">>,
      <<"a", SP, "b", SP, "c">>,
      <<"1", ".", SP, "a", SP, "b", SP, "c">>,
      <<"S", "t", "e", "p", SP, "1", ":", SP, "a", SP, "b">>,
      <<"-", SP, "a", SP, "b", SP, "c">>,
      <<"*", SP, "a", SP, "b">>,
      <<Bullet, SP, "a", SP, "b">>,
      <<"a", SP, "S", "t", "e", "p", SP, "b">>,
      <<"1", ":", SP, "c">>,
      <<SP, "1", ".", SP, "a", SP, "b">>,
      <<"a", SP, "3", ".", "1">>,
      <<"a", SP, Bullet, SP, "b">> }

\* a blank line, a line without marker, a numbered and a bulleted line, and a
\* line that starts with a number and a colon
FollowingLines ==
    { <<>>,
      <<"a", SP, "b", SP, "c">>,
      <<"1", ".", SP, "a", SP, "b", SP, "c">>,
      <<"-", SP, "a", SP, "b", SP, "c">>,
      <<"1", ":", SP, "c">> }

RECURSIVE TextsOfLines(_)
TextsOfLines(n) ==
    IF n = 1 THEN ReasoningLines
    ELSE {t \o <<NL>> \o l : t \in TextsOfLines(n - 1), l \in FollowingLines}

\* a numbered step of nine words
NineWordStep ==
    <<"1", ".", " ", "T", "h", "e", " ", "q", "u", "i", "c", "k", " ", "b", "r", "o", "w", "n", " ", "f", "o", "x", " ">>
    \o <<"j", "u", "m", "p", "s", " ", "o", "v", "e", "r", " ", "t", "h", "e", " ", "l", "a", "z", "y", " ", "d", "o", "g", " ", "t", "o", "d", "a", "y">>

ReasoningTexts == UNION {TextsOfLines(n) : n \in 1..MaxLines} \cup {NineWordStep}

(***************************************************************************)
(* The inputs of the complexity estimator: problems of up to MaxPieces     *)
(* pieces joined by blanks, the first drawn from ProblemPieces and the     *)
(* later ones from FollowingPieces, and domain names in several spellings. *)
(***************************************************************************)
MaxPieces == 3

\* a clause of 30 words without a full stop
LongClause ==
    SubSeq([i \in 1..59 |-> IF i % 2 = 1 THEN "a" ELSE SP], 1, 59)

\* four of the indicators of the domain "math"
FourIndicators ==
    <<"M", "a", "t", "r", "i", "x", " ", "v", "e", "c", "t", "o", "r", " ">>
    \o <<"c", "a", "l", "c", "u", "l", "u", "s", " ", "t", "h", "e", "o", "r", "e", "m">>

ProblemPieces ==
    { <<"a">>,
      <<"?">>,
      <<"a", ".">>,
      <<"p", "r", "o", "o", "f">>,
      <<"F", "u", "n", "c", "t", "i", "o", "n">>,
      FourIndicators,
      LongClause }

\* the pieces that follow the first one
FollowingPieces ==
    { <<"?">>,
      <<"a", ".">>,
      <<"p", "r", "o", "o", "f">>,
      LongClause }

RECURSIVE ProblemsOfPieces(_)
ProblemsOfPieces(n) ==
    IF n = 0 THEN {<<>>}
    ELSE {t \o <<SP>> \o u : t \in ProblemsOfPieces(n - 1),
                              u \in IF n = 1 THEN ProblemPieces ELSE FollowingPieces}

Problems == UNION {ProblemsOfPieces(n) : n \in 0..MaxPieces}

EstimatorDomains ==
    { MATH, <<"M", "a", "t", "h">>, CODE, COMMON_SENSE, GENERAL, <<"z">>, <<>> }

(***************************************************************************)
(* The inputs of the selector and of the analytics store.                  *)
(***************************************************************************)
\* the number of state-changing calls (update_preferences, record_inference)
MaxOperations == 2

ShortProblem == <<"a">>
ManyQuestions == <<"?", "?", "?">>
SelectorDomains == {MATH, <<"M", "a", "t", "h">>, GENERAL, <<>>}
\* the arguments (problem, complexity_score) of select_approach
SelectorArguments ==
    { <<ShortProblem, Nothing>>, <<ManyQuestions, Nothing>>,
      <<ShortProblem, Just(6)>>, <<ShortProblem, Just(7)>> }
PolicyDomains == {MATH, GENERAL, DEFAULT}
\* the arguments (complexity_threshold, accuracy_threshold) of update_preferences
ThresholdArguments ==
    { <<Nothing, Nothing>>, <<Just(5), Nothing>>, <<Nothing, Just(<<1, 1>>)>> }
\* the arguments (domain, complexity_threshold, accuracy_threshold) of
\* update_preferences: the combinations of the above, and both thresholds given
\* for a domain spelt with a capital
UpdateArguments ==
    {<<d, t[1], t[2]>> : d \in PolicyDomains, t \in ThresholdArguments}
        \cup {<<<<"M", "a", "t", "h">>, Just(9), Just(<<1, 1>>)>>}
LookupDomains ==
    {Nothing, Just(<<>>), Just(MATH), Just(<<"M", "a", "t", "h">>), Just(GENERAL)}
RecordDomains == {MATH, <<>>}
GivenAnswer == <<"4", "2">>
\* the arguments (approach, expected_answer) of record_inference
RecordArguments ==
    { <<CoD, Nothing>>, <<CoD, Just(<<"4", "2">>)>>, <<CoD, Just(<<"7">>)>>,
      <<CoT, Just(<<"7">>)>> }

(***************************************************************************)
(* The inputs of solve_with_reasoning and the responses of the model.      *)
(***************************************************************************)
MaxSolves == 1

\* the first test problem of the scenario with domain "math"
LollipopProblem ==
    <<"J", "a", "s", "o", "n", " ", "h", "a", "d", " ", "2", "0", " ", "l", "o", "l", "l", "i", "p", "o", "p", "s", ".", " ", "H", "e", " ", "g", "a", "v", "e", " ">>
    \o <<"D", "e", "n", "n", "y", " ", "s", "o", "m", "e", ".", " ", "N", "o", "w", " ", "h", "e", " ", "h", "a", "s", " ", "1", "2", ".", " ">>
    \o <<"H", "o", "w", " ", "m", "a", "n", "y", " ", "d", "i", "d", " ", "h", "e", " ", "g", "i", "v", "e", "?">>

\* the calls solve_with_reasoning(problem, domain, ...) of the model; the
\* estimate of the first problem is below the threshold of its domain, that
\* of the second above
SolveCalls ==
    { <<ShortProblem, MATH>>, <<ManyQuestions, GENERAL>>, <<LollipopProblem, MATH>>,
      <<<<>>, GENERAL>> }

\* the keyword arguments a solve is called with; the last are those of the
\* tool chain_of_draft_solve when its caller gives neither a limit nor an
\* approach (server.py:58-65)
SolveArguments ==
    { <<>>,
      "approach" :> Just(CoD),
      "approach" :> Just(CoT),
      ("approach" :> Just(CoD)) @@ ("max_words_per_step" :> Just(4)),
      ("approach" :> Just(CoT)) @@ ("max_words_per_step" :> Just(4)),
      ("approach" :> Just(CoD)) @@ ("max_words_per_step" :> Nothing),
      ("approach" :> Just(CoD)) @@ ("max_words_per_step" :> Nothing)
          @@ ("adaptive_word_limit" :> FALSE),
      ("approach" :> Just(CoT)) @@ ("max_words_per_step" :> Nothing),
      ("approach" :> Just(CoD)) @@ ("adaptive_word_limit" :> FALSE),
      ("approach" :> Just(CoD)) @@ ("enforce_format" :> FALSE),
      ("approach" :> Just(CoD)) @@ ("max_words_per_step" :> Just(4)) @@ ("adaptive_word_limit" :> FALSE),
      "adaptive_word_limit" :> FALSE,
      "track_analytics" :> FALSE,
      ("approach" :> Nothing) @@ ("max_words_per_step" :> Nothing)
          @@ ("enforce_format" :> TRUE) @@ ("adaptive_word_limit" :> TRUE) }

\* the exceptions a provider raises
ProviderErrors == { "RuntimeError", "TimeoutError" }

\* the model argument of the interfaces: absent or a name
ModelArguments == { Nothing, Just("gpt") }

\* the prompt argument of completions: absent, empty or a problem
PromptArguments == { Nothing, Just(<<>>), Just(ShortProblem) }

UserMessage(content) == [role |-> "user", content |-> content]
AssistantMessage(content) == [role |-> "assistant", content |-> content]

\* the messages argument of chat and messages: absent, empty, without a user
\* message, with an empty user message, and with a problem in the last but
\* one message
MessagesArguments ==
    { Nothing, Just(<<>>),
      Just(<<AssistantMessage(<<"h", "i">>)>>),
      Just(<<UserMessage(<<>>)>>),
      Just(<<UserMessage(<<"a">>), UserMessage(ShortProblem), AssistantMessage(<<"h", "i">>)>>) }

\* the keyword arguments of the interfaces
InterfaceArguments == { <<>>, "domain" :> MATH, "approach" :> Just(CoT) }

\* n one-letter words
Letters(n) == SubSeq([i \in 1..(2 * n - 1) |-> IF i % 2 = 1 THEN "a" ELSE SP], 1, 2 * n - 1)

Responses ==
    { <<"1", ".", SP>> \o Letters(11) \o <<NL, "2", ".", SP, "b", SP>> \o Separator
          \o <<SP, "4", "2", NL>>,
      <<"r", SP>> \o Separator \o <<SP, "a", SP>> \o Separator \o <<SP, "b">>,
      <<"a", SP, "b">>,
      <<SP>> \o Letters(9) \o <<NL>>,
      <<>> }

VARIABLES
    reasoning,            \* format.py: the text handed to the enforcer
    max_words_per_step,   \* format.py: the word limit handed to the enforcer
    enforced_steps,       \* format.py:37, the list enforce_word_limit joins
    enforced,             \* the text enforce_word_limit returned
    numbered,             \* what format_to_numbered_steps made of that text
    adherence,            \* the report analyze_adherence returned
    fmt_pc,               \* "input", "enforced", "analyzed"
    cx_problem,           \* complexity.py: the problem handed to the estimator
    cx_domain,            \* complexity.py: the domain handed to the estimator
    cx_estimate,          \* what estimate_complexity returned
    cx_analysis,          \* what analyze_problem returned
    default_preferences,  \* reasoning.py: self.default_preferences, name -> object
    policy_objects,       \* the dict objects default_preferences refers to
    inference_records,    \* analytics.py: the rows of inference_records
    update_log,           \* the update_preferences calls made so far
    call,                 \* the selector call in progress or just returned
    solve,                \* client.py: the solve_with_reasoning call in progress
    solves                \* the number of solve_with_reasoning calls so far

fmt_vars == <<reasoning, max_words_per_step, enforced_steps, enforced, numbered, adherence, fmt_pc>>
cx_vars == <<cx_problem, cx_domain, cx_estimate, cx_analysis>>
sel_vars == <<default_preferences, policy_objects, inference_records, update_log, call>>
solve_vars == <<solve, solves>>
vars == <<reasoning, max_words_per_step, enforced_steps, enforced, numbered, adherence, fmt_pc,
          cx_problem, cx_domain, cx_estimate, cx_analysis,
          default_preferences, policy_objects, inference_records, update_log, call,
          solve, solves>>

\* no selector call in progress
IdleCall ==
    [op |-> "none", pc |-> "idle", problem |-> <<>>, domain |-> Nothing,
     complexity_score |-> Nothing, score |-> 0, prefs |-> 0, started_with |-> Nothing,
     result |-> Nothing]

\* no solve_with_reasoning call in progress
IdleSolve ==
    [pc |-> "idle", problem |-> <<>>, domain |-> <<>>, kwargs |-> <<>>, complexity |-> 0,
     approach |-> "", approach_reason |-> <<>>, word_limit |-> Nothing, request |-> Nothing,
     llm_calls |-> 0, selector_calls |-> 0, full_response |-> Nothing, result |-> Nothing,
     error |-> Nothing, entry |-> "none", model |-> Nothing, input |-> Nothing,
     estimator_calls |-> 0, examples_calls |-> 0, enforcer_calls |-> 0, events |-> 0,
     adherence |-> Nothing, provider_error |-> Nothing, response |-> Nothing]

\* the client before its first call
ClientIdle ==
    /\ solve = IdleSolve
    /\ solves = 0

\* the enforcer before it is handed a text
FormatIdle ==
    /\ reasoning = <<>>
    /\ max_words_per_step = 1
    /\ enforced_steps = <<>>
    /\ enforced = Nothing
    /\ numbered = Nothing
    /\ adherence = Nothing
    /\ fmt_pc = "idle"

\* the estimator before it is handed a problem
ComplexityIdle ==
    /\ cx_problem = <<>>
    /\ cx_domain = GENERAL
    /\ cx_estimate = Nothing
    /\ cx_analysis = Nothing

\* ReasoningSelector.__init__ and AnalyticsService.__init__ on an empty database
SelectorStart ==
    /\ default_preferences = InitialPreferences
    /\ policy_objects = InitialPolicyObjects
    /\ inference_records = <<>>
    /\ update_log = <<>>
    /\ call = IdleCall

(***************************************************************************)
(* The format enforcer as solve_with_reasoning drives it.                  *)
(***************************************************************************)
FormatInit ==
    /\ reasoning \in ReasoningTexts
    /\ max_words_per_step \in 1..MaxLimit
    /\ enforced_steps = <<>>
    /\ enforced = Nothing
    /\ numbered = Nothing
    /\ adherence = Nothing
    /\ fmt_pc = "input"
    /\ ComplexityIdle
    /\ SelectorStart
    /\ ClientIdle

\* client.py:438  reasoning = self.format_enforcer.enforce_word_limit(reasoning, word_limit)
Enforce ==
    /\ fmt_pc = "input"
    /\ enforced_steps' = EnforcedSteps(reasoning, max_words_per_step)
    /\ enforced' = enforce_word_limit(reasoning, max_words_per_step)
    /\ fmt_pc' = "enforced"
    /\ UNCHANGED <<reasoning, max_words_per_step, numbered, adherence, cx_vars, sel_vars, solve_vars>>

\* client.py:439  adherence = self.format_enforcer.analyze_adherence(reasoning, word_limit)
Analyze ==
    /\ fmt_pc = "enforced"
    /\ adherence' = analyze_adherence(enforced, max_words_per_step)
    /\ fmt_pc' = "analyzed"
    /\ UNCHANGED <<reasoning, max_words_per_step, enforced_steps, enforced, numbered, cx_vars, sel_vars, solve_vars>>

\* format.py:132  format_to_numbered_steps, handed the enforced text
Renumber ==
    /\ fmt_pc \in {"enforced", "analyzed"}
    /\ numbered = Nothing
    /\ numbered' = Just(format_to_numbered_steps(enforced))
    /\ UNCHANGED <<reasoning, max_words_per_step, enforced_steps, enforced, adherence, fmt_pc, cx_vars, sel_vars, solve_vars>>

FormatNext == Enforce \/ Analyze \/ Renumber

SpecFormat == FormatInit /\ [][FormatNext]_vars

(***************************************************************************)
(* The complexity estimator.                                               *)
(***************************************************************************)
ComplexityInit ==
    /\ cx_problem \in Problems
    /\ cx_domain \in EstimatorDomains
    /\ cx_estimate = Nothing
    /\ cx_analysis = Nothing
    /\ FormatIdle
    /\ SelectorStart
    /\ ClientIdle

\* client.py:394  complexity = await self.complexity_estimator.estimate_complexity(problem, domain)
Estimate ==
    /\ cx_estimate = Nothing
    /\ cx_estimate' = Just(estimate_complexity(cx_problem, cx_domain))
    /\ UNCHANGED <<cx_problem, cx_domain, cx_analysis, fmt_vars, sel_vars, solve_vars>>

\* server.py:200  analysis = complexity_estimator.analyze_problem(problem, domain)
AnalyzeProblem ==
    /\ cx_analysis = Nothing
    /\ cx_analysis' = Just(analyze_problem(cx_problem, cx_domain))
    /\ UNCHANGED <<cx_problem, cx_domain, cx_estimate, fmt_vars, sel_vars, solve_vars>>

ComplexityNext == Estimate \/ AnalyzeProblem

SpecComplexity == ComplexityInit /\ [][ComplexityNext]_vars

(***************************************************************************)
(* The selector with its policy mapping and the analytics store.  A call   *)
(* of select_approach is two steps: up to the await of the performance     *)
(* query (reasoning.py:81), and from the query's rows to the return.       *)
(***************************************************************************)
SelectorInit ==
    /\ SelectorStart
    /\ FormatIdle
    /\ ComplexityIdle
    /\ ClientIdle

\* reasoning.py:68-78  select_approach up to the await
SelectStart(problem, domain, complexity_score) ==
    /\ call.pc = "idle"
    /\ IF DEFAULT \notin DOMAIN default_preferences
       THEN call' = [IdleCall EXCEPT !.op = "select_approach", !.pc = "raised",
                                     !.problem = problem, !.domain = Just(domain),
                                     !.complexity_score = complexity_score,
                                     !.result = Just("KeyError")]
       ELSE LET prefs == PrefsOf(default_preferences, domain)
                score == IF complexity_score = Nothing
                         THEN estimate_complexity(problem, domain)
                         ELSE The(complexity_score)
                started == [IdleCall EXCEPT !.op = "select_approach", !.pc = "query",
                                            !.problem = problem, !.domain = Just(domain),
                                            !.complexity_score = complexity_score,
                                            !.score = score, !.prefs = prefs,
                                            !.started_with = Just(policy_objects[prefs])]
            IN  IF ExceedsThreshold(score, policy_objects[prefs])
                THEN call' = [started EXCEPT
                                  !.pc = "done",
                                  !.result = Just(ComplexityVerdict(score, policy_objects[prefs]))]
                ELSE call' = started
    /\ UNCHANGED <<default_preferences, policy_objects, inference_records, update_log,
                   fmt_vars, cx_vars, solve_vars>>

\* reasoning.py:81-89  select_approach from the rows of the query to the return
SelectFinish ==
    /\ call.pc = "query"
    /\ \E cod_accuracy \in CodAccuracies(
                               get_performance_by_domain(inference_records, The(call.domain))) :
           call' = [call EXCEPT
                        !.pc = "done",
                        !.result = Just(VerdictAfterQuery(cod_accuracy,
                                                          policy_objects[call.prefs]))]
    /\ UNCHANGED <<default_preferences, policy_objects, inference_records, update_log,
                   fmt_vars, cx_vars, solve_vars>>

\* reasoning.py:91-100  update_preferences(domain, complexity_threshold, accuracy_threshold)
UpdatePreferences(domain, complexity_threshold, accuracy_threshold) ==
    /\ Len(update_log) + Len(inference_records) < MaxOperations
    /\ LET after == update_preferences(default_preferences, policy_objects, domain,
                                       complexity_threshold, accuracy_threshold)
       IN  /\ default_preferences' = after.preferences
           /\ policy_objects' = after.objects
    /\ update_log' = Append(update_log, [domain |-> domain,
                                         complexity_threshold |-> complexity_threshold,
                                         accuracy_threshold |-> accuracy_threshold])
    /\ UNCHANGED <<inference_records, call, fmt_vars, cx_vars, solve_vars>>

\* reasoning.py:102-106  get_preferences(domain)
GetPreferences(domain) ==
    /\ call.pc = "idle"
    /\ call' = [IdleCall EXCEPT !.op = "get_preferences", !.pc = "done", !.domain = domain,
                                !.result = Just(get_preferences(default_preferences, domain))]
    /\ UNCHANGED <<default_preferences, policy_objects, inference_records, update_log,
                   fmt_vars, cx_vars, solve_vars>>

\* the caller takes the value a finished call returned or raised
Return ==
    /\ call.pc \in {"done", "raised"}
    /\ call' = IdleCall
    /\ UNCHANGED <<default_preferences, policy_objects, inference_records, update_log,
                   fmt_vars, cx_vars, solve_vars>>

\* analytics.py:47-74  record_inference of a finished inference
RecordInference(domain, approach, expected_answer) ==
    /\ Len(update_log) + Len(inference_records) < MaxOperations
    /\ inference_records' =
           Append(inference_records,
                  InferenceRecord(ShortProblem, domain, approach, 8, 1, <<>>,
                                  GivenAnswer, expected_answer, Nothing))
    /\ UNCHANGED <<default_preferences, policy_objects, update_log, call,
                   fmt_vars, cx_vars, solve_vars>>

SelectorNext ==
    \/ \E a \in SelectorArguments, d \in SelectorDomains : SelectStart(a[1], d, a[2])
    \/ SelectFinish
    \/ \E u \in UpdateArguments : UpdatePreferences(u[1], u[2], u[3])
    \/ \E d \in LookupDomains : GetPreferences(d)
    \/ Return
    \/ \E d \in RecordDomains, r \in RecordArguments : RecordInference(d, r[1], r[2])

SpecSelector == SelectorInit /\ [][SelectorNext]_vars

(***************************************************************************)
(* The client.  A call of solve_with_reasoning is two steps: up to the     *)
(* await of the model's response (client.py:422), and from the response to *)
(* the return; the awaits before and after it complete without giving up   *)
(* control.                                                                *)
(***************************************************************************)
SolveInit ==
    /\ ClientIdle
    /\ SelectorStart
    /\ FormatIdle
    /\ ComplexityIdle

\* client.py:407-427  a solve with its approach chosen: the word limit, the
\* examples and the prompt, up to the await of llm_client.chat
SolveAwaits(problem, domain, kwargs, complexity, approach, approach_reason, word_limit) ==
    LET examples == get_examples(domain, approach)
        prompt == IF approach = CoD
                  THEN create_cod_prompt(problem, domain, word_limit, examples)
                  ELSE create_cot_prompt(problem, domain, examples)
    IN  [IdleSolve EXCEPT
             !.pc = "chat",
             !.entry = "solve_with_reasoning",
             !.problem = problem,
             !.domain = domain,
             !.kwargs = kwargs,
             !.complexity = complexity,
             !.approach = approach,
             !.approach_reason = approach_reason,
             !.word_limit = word_limit,
             !.request = Just(ChatRequest(prompt, LocalSettings(kwargs))),
             !.estimator_calls = 1,
             !.selector_calls = IF ApproachGiven(LocalSettings(kwargs)) THEN 0 ELSE 1,
             !.examples_calls = 1,
             !.llm_calls = 1]

\* client.py:396-405  the approach: the one given, else the selector's
SolveSelects(problem, domain, kwargs, complexity) ==
    LET verdicts == IF ApproachGiven(LocalSettings(kwargs))
                    THEN {<<The(LocalSettings(kwargs)["approach"]), <<"Manually specified">> >>}
                    ELSE select_approach(default_preferences, policy_objects,
                                         inference_records, problem, domain,
                                         Just(complexity))
    IN  { SolveAwaits(problem, domain, kwargs, complexity, verdict[1], verdict[2],
                      WordLimit(kwargs, verdict[1], complexity))
          : verdict \in verdicts }

\* client.py:388-427  solve_with_reasoning up to the request to the model:
\* the states the call can be in when it awaits llm_client.chat
SolveStarts(problem, domain, kwargs) ==
    SolveSelects(problem, domain, kwargs, estimate_complexity(problem, domain))

\* a call of solve_with_reasoning(problem, domain, **kwargs)
SolveStart(problem, domain, kwargs) ==
    /\ solve.pc = "idle"
    /\ solves < MaxSolves
    /\ solves' = solves + 1
    /\ solve' \in SolveStarts(problem, domain, kwargs)
    /\ UNCHANGED <<fmt_vars, cx_vars, sel_vars>>

\* client.py:443-469  the end of a solve whose enforcement did not raise:
\* the inference is recorded when track_analytics is on, and the result is
\* returned, through the interface that was called if there was one
SolveCompletes(full_response, local_settings, final, answer, report) ==
    LET result == SolveResult(final, answer, full_response, solve.approach,
                              solve.complexity, solve.word_limit)
    IN  /\ solve' = [solve EXCEPT
                         !.pc = "done",
                         !.full_response = Just(full_response),
                         !.enforcer_calls = IF Enforcing(local_settings, solve.approach)
                                            THEN 1 ELSE 0,
                         !.adherence = report,
                         !.events = IF local_settings["track_analytics"] THEN 1 ELSE 0,
                         !.result = Just(result),
                         !.response =
                             IF solve.entry = "solve_with_reasoning" THEN Nothing
                             ELSE Just(WrapperResponse(solve.entry, solve.model,
                                                       solve.input, result))]
        /\ inference_records' =
               IF local_settings["track_analytics"]
               THEN Append(inference_records,
                           InferenceRecord(solve.problem, solve.domain, solve.approach,
                                           solve.word_limit,
                                           Len(Split(full_response)), final, answer,
                                           Nothing,
                                           Just([complexity |-> solve.complexity,
                                                 approach_reason |-> solve.approach_reason,
                                                 adherence |-> report])))
               ELSE inference_records

\* client.py:431-441  the reasoning and the answer are taken from the
\* response and the reasoning is enforced, which raises for a limit of None
SolveEnforces(full_response, local_settings, reasoning0, answer) ==
    IF EnforcementRaises(local_settings, solve.approach, solve.word_limit, reasoning0)
    THEN /\ solve' = [solve EXCEPT !.pc = "raised",
                                    !.full_response = Just(full_response),
                                    !.enforcer_calls = 1,
                                    !.error = Just("TypeError")]
         /\ UNCHANGED inference_records
    ELSE SolveCompletes(full_response, local_settings,
                        EnforcedReasoning(local_settings, solve.approach, solve.word_limit,
                                          reasoning0),
                        answer,
                        AdherenceReport(local_settings, solve.approach, solve.word_limit,
                                        reasoning0))

\* client.py:430-469  solve_with_reasoning from the response to the return
ChatReturns(full_response) ==
    /\ solve.pc = "chat"
    /\ SolveEnforces(full_response, LocalSettings(solve.kwargs),
                     ResponseReasoning(full_response), ResponseAnswer(full_response))
    /\ UNCHANGED <<solves, default_preferences, policy_objects, update_log, call,
                   fmt_vars, cx_vars>>

\* a client that asks the model a second time before it gives up
ChatFailsAfterRetry(e) ==
    /\ solve.pc = "chat"
    /\ solve' = [solve EXCEPT !.pc = "raised", !.error = Just(e),
                              !.provider_error = Just(e),
                              !.llm_calls = solve.llm_calls + 1]
    /\ UNCHANGED <<solves, fmt_vars, cx_vars, sel_vars>>

\* client.py:422-427  the request to the model raises e: UnifiedLLMClient.chat
\* prints the error and raises the same exception again (client.py:180-182),
\* and nothing in solve_with_reasoning or the interfaces catches it
ChatFails(e) ==
    /\ solve.pc = "chat"
    /\ solve' = [solve EXCEPT !.pc = "raised", !.error = Just(e),
                              !.provider_error = Just(e)]
    /\ UNCHANGED <<solves, fmt_vars, cx_vars, sel_vars>>

\* the caller takes the result or the exception
SolveReturn ==
    /\ solve.pc \in {"done", "raised"}
    /\ solve' = IdleSolve
    /\ UNCHANGED <<solves, fmt_vars, cx_vars, sel_vars>>

\* client.py:227-242, 277-297, 329-349  an interface up to the request to the
\* model: it raises for its input, or the call of solve_with_reasoning raises,
\* or the solve starts with domain "general" and the model among its settings
InterfaceCall(entry, model, input, kwargs) ==
    /\ solve.pc = "idle"
    /\ solves < MaxSolves
    /\ solves' = solves + 1
    /\ LET called == [IdleSolve EXCEPT !.entry = entry, !.model = model,
                                       !.input = input, !.kwargs = kwargs]
       IN  IF InputError(entry, input) # Nothing
           THEN solve' = [called EXCEPT !.pc = "raised",
                                        !.error = Just(The(InputError(entry, input)))]
           ELSE IF CallError(model, kwargs) # Nothing
           THEN solve' = [called EXCEPT !.pc = "raised",
                                        !.error = Just(The(CallError(model, kwargs)))]
           ELSE \E started \in SolveStarts(ProblemOf(entry, input), GENERAL,
                                            kwargs @@ ("model" :> The(model))) :
                    solve' = [started EXCEPT !.entry = entry, !.model = model,
                                             !.input = input]
    /\ UNCHANGED <<fmt_vars, cx_vars, sel_vars>>

\* client.py:215  completions(model, prompt, **kwargs)
Completions(model, prompt, kwargs) == InterfaceCall("completions", model, prompt, kwargs)

\* client.py:266  chat(model, messages, **kwargs)
Chat(model, messages, kwargs) == InterfaceCall("chat", model, messages, kwargs)

\* client.py:320  messages(model, messages, **kwargs)
Messages(model, messages, kwargs) == InterfaceCall("messages", model, messages, kwargs)

SolveNext ==
    \/ \E c \in SolveCalls, k \in SolveArguments : SolveStart(c[1], c[2], k)
    \/ \E r \in Responses : ChatReturns(r)
    \/ \E e \in ProviderErrors : ChatFails(e)
    \/ SolveReturn
    \/ \E m \in ModelArguments, i \in PromptArguments, k \in InterfaceArguments :
           Completions(m, i, k)
    \/ \E m \in ModelArguments, i \in MessagesArguments, k \in InterfaceArguments :
           Chat(m, i, k)
    \/ \E m \in ModelArguments, i \in MessagesArguments, k \in InterfaceArguments :
           Messages(m, i, k)

SpecSolve == SolveInit /\ [][SolveNext]_vars

(***************************************************************************)
(* Claims about the format enforcer.                                       *)
(***************************************************************************)

\* C1: once enforce_word_limit(text, N) has run, every step of its output, as
\* _split_into_steps segments it, has at most N words in its content (the
\* leading marker excluded, as analyze_adherence counts them).
C1_EveryStepWithinLimit ==
    fmt_pc \in {"enforced", "analyzed"} =>
        \A i \in DOMAIN StepCounts(enforced) :
            StepCounts(enforced)[i] <= max_words_per_step

\* C2: analyze_adherence(enforce_word_limit(text, N), N) reports an
\* adherence_rate of 1.0 (steps_within_limit = total_steps, and 1.0 for zero
\* steps), and the rate lies in [0, 1].
C2_FullAdherenceAfterEnforce ==
    fmt_pc = "analyzed" =>
        /\ adherence.adherence_rate[1] = adherence.adherence_rate[2]
        /\ 0 <= adherence.adherence_rate[1]
        /\ adherence.adherence_rate[1] <= adherence.adherence_rate[2]

\* the steps of the input text, as enforce_word_limit segments it
InputSteps == _split_into_steps(reasoning)

\* the number of words of a step's content, its leading marker excluded
ContentWords(step) == Len(Split(ContentOf(step)))

\* C11: every step of the input whose marker-stripped content has at most N
\* words is, in the list enforce_word_limit joins into its output, identical
\* to its form in the input: marker, spacing and internal line breaks kept,
\* for every marker style and for multi-line steps.
C11_WithinBudgetUnchanged ==
    fmt_pc \in {"enforced", "analyzed"} =>
        \A i \in DOMAIN InputSteps :
            ContentWords(InputSteps[i]) <= max_words_per_step =>
                enforced_steps[i] = InputSteps[i]

\* the steps of the enforced text, as _split_into_steps segments it
OutputSteps == _split_into_steps(enforced)

\* C12: segmenting enforce_word_limit(text, N) yields as many steps as
\* segmenting text, in the same order: the i-th step of the output is the
\* (possibly truncated) i-th step of the input; none is dropped, merged,
\* split or reordered.
C12_StepsPreserved ==
    fmt_pc \in {"enforced", "analyzed"} =>
        /\ Len(OutputSteps) = Len(InputSteps)
        /\ \A i \in DOMAIN InputSteps : OutputSteps[i] = enforced_steps[i]

\* the first n words of a step's content, joined by single blanks
FirstWords(step, n) == Join(SubSeq(Split(ContentOf(step)), 1, n), <<SP>>)

AnyMarkerLen(step) ==
    IF IndentedNumberMatch(step)
    THEN SpanEnd(step, NumberDotEnd(step, SpanEnd(step, 1, WS)), WS) - 1
    ELSE MarkerLen(step)

\* the content of a step without its marker and without surrounding blanks
StrippedContent(step) == Strip(Drop(step, AnyMarkerLen(step)))

\* the enforced steps, renumbered "1.", "2.", ... with their contents kept
RenumberedSteps ==
    SubSeq([i \in 1..Len(enforced_steps) |->
               DecimalOf(i) \o <<".", SP>> \o StrippedContent(enforced_steps[i])],
           1, Len(enforced_steps))

\* C14: format_to_numbered_steps(enforce_word_limit(text, N)) consists of
\* steps marked "1.", "2.", ... in sequence, one per step of the enforced
\* text, and the content after each new marker is exactly the marker-stripped
\* content of the corresponding enforced step, whatever the original marker
\* style (a number with or without leading blanks, "Step N:", bullets, none).
C14_RenumberKeepsContent ==
    numbered # Nothing => The(numbered) = Join(RenumberedSteps, <<NL>>)

(***************************************************************************)
(* Claims about the complexity estimator.                                  *)
(***************************************************************************)

\* C3: for every problem text (the empty one included) and every domain
\* string, known or not, estimate_complexity returns an integer in 3..10.
C3_EstimateInRange ==
    cx_estimate # Nothing => The(cx_estimate) \in 3..10

\* an estimate of 10 that the cap produced from a larger adjusted limit
C3_CapApplied ==
    /\ cx_estimate = Just(10)
    /\ adjusted_limit(cx_problem, cx_domain) > 10

\* x brought into lo..hi
Clamp(x, lo, hi) == IF x < lo THEN lo ELSE IF x > hi THEN hi ELSE x

\* the five factors of C15 as quotients: length, indicator, question, sentence
\* (left out when the text has no sentence) and domain
ClaimedFactors(problem, domain) ==
    LET words == Len(Split(problem))
        k == indicator_count(problem, domain)
        marks == CountChar(problem, "?")
        sentences == sentence_count(problem)
        proof == Lower(domain) = MATH /\ AnyTermIn(problem, math_terms)
        implementation == Lower(domain) = CODE /\ AnyTermIn(problem, code_terms)
    IN  << IF words > 100 THEN <<2, 1>> ELSE <<words, 50>>,
           IF k > 4 THEN <<18, 10>> ELSE <<10 + 2 * k, 10>>,
           <<10 + 2 * marks, 10>>,
           IF sentences = 0 THEN <<0, 1>>
           ELSE IF 2 * words > 45 * sentences THEN <<15, 10>> ELSE <<words, 15 * sentences>>,
           IF proof THEN <<13, 10>> ELSE IF implementation THEN <<12, 10>> ELSE <<1, 1>> >>

\* clamp(round(base * m), 3, 10) with m the largest of the five factors
ClaimedEstimate(problem, domain) ==
    LET base == IF Lower(domain) \in DOMAIN domain_base_limits
                THEN domain_base_limits[Lower(domain)] ELSE 5
        fs == ClaimedFactors(problem, domain)
        m == fs[CHOOSE i \in 1..5 : \A j \in 1..5 : fs[j][1] * fs[i][2] <= fs[i][1] * fs[j][2]]
    IN  Clamp(RoundHalfEven(<<base * m[1], m[2]>>), 3, 10)

\* C15: for every problem text and domain, estimate_complexity equals
\* clamp(round(base * m), 3, 10), where base is the domain's base budget (5
\* for an unknown domain) and m is the maximum, not the sum, of the length,
\* indicator, question, sentence and domain factors.
C15_EstimateIsClampedMaximum ==
    cx_estimate # Nothing => The(cx_estimate) = ClaimedEstimate(cx_problem, cx_domain)

\* an estimate below the cap for a problem with two factors above 1
C15_TwoFactorsAboveOne ==
    /\ cx_estimate # Nothing
    /\ The(cx_estimate) < 10
    /\ CountChar(cx_problem, "?") > 0
    /\ domain_factor(cx_problem, cx_domain) # <<1, 1>>

\* C16: the report of analyze_problem holds every factor estimate_complexity
\* uses, the domain factor included, and its estimated_complexity equals what
\* estimate_complexity returns for the same problem and domain.
C16_AnalysisAgreesWithEstimate ==
    (cx_analysis # Nothing /\ cx_estimate # Nothing) =>
        /\ {"length_factor", "indicator_factor", "question_factor",
            "sentence_complexity_factor", "domain_factor"} \subseteq DOMAIN The(cx_analysis)
        /\ The(cx_analysis).estimated_complexity = The(cx_estimate)


(***************************************************************************)
(* Claims about the selector.                                              *)
(***************************************************************************)

\* the policy entry select_approach resolves for a domain
DomainPolicy(domain) == policy_objects[PrefsOf(default_preferences, domain)]

\* the indices of the CoD rows recorded for a domain
CodRowsOf(domain) ==
    {i \in 1..Len(inference_records) :
        inference_records[i].domain = domain /\ inference_records[i].approach = CoD}

\* the CoD accuracy recorded for a domain; Nothing when there is no CoD row
\* or no CoD row with a correctness value
RecordedCodAccuracy(domain) == AvgIsCorrect(inference_records, CodRowsOf(domain))

\* a step in which select_approach is called
SelectCalled == call.pc = "idle" /\ call'.op = "select_approach"

\* a step in which select_approach returns after the performance query
SelectReturnsAfterQuery == call.pc = "query" /\ call'.pc = "done"

\* C4: whenever the complexity score, given by the caller or estimated by the
\* selector, is strictly greater than the domain's complexity_threshold,
\* select_approach returns CoT at once, whatever the recorded history holds.
C4_ComplexityRuleFirst ==
    [][SelectCalled =>
          LET domain == The(call'.domain)
              score == IF call'.complexity_score = Nothing
                       THEN estimate_complexity(call'.problem, domain)
                       ELSE The(call'.complexity_score)
          IN  score > DomainPolicy(domain).complexity_threshold =>
                  /\ call'.pc = "done"
                  /\ The(call'.result)[1] = CoT]_vars

\* select_approach has returned CoT by the complexity rule for a domain whose
\* recorded CoD accuracy is 1.0
C4_CoTDespiteGoodHistory ==
    /\ call.op = "select_approach"
    /\ call.pc = "done"
    /\ call.score > DomainPolicy(The(call.domain)).complexity_threshold
    /\ The(call.result)[1] = CoT
    /\ RecordedCodAccuracy(The(call.domain)) = Just(<<1, 1>>)

\* C5: whenever the complexity score does not exceed the threshold and the
\* history has no CoD row for the domain, or only CoD rows without a
\* correctness value, select_approach returns CoD with the justification
\* "Default to Chain-of-Draft for efficiency".
C5_DefaultWithoutHistory ==
    [][SelectReturnsAfterQuery =>
          (RecordedCodAccuracy(The(call.domain)) = Nothing =>
              The(call'.result) = DefaultVerdict)]_vars

\* C6: whenever the complexity score does not exceed the threshold and a CoD
\* accuracy is recorded for the domain, select_approach returns CoT if and
\* only if that accuracy is strictly below the accuracy_threshold of the
\* domain's policy entry; otherwise it returns CoD.
C6_AccuracyRule ==
    [][SelectReturnsAfterQuery =>
          LET accuracy == RecordedCodAccuracy(The(call.domain))
              threshold == policy_objects[call.prefs].accuracy_threshold
          IN  accuracy # Nothing =>
                  IF RLt(The(accuracy), threshold)
                  THEN The(call'.result)[1] = CoT
                  ELSE The(call'.result)[1] = CoD]_vars

(***************************************************************************)
(* Claims about the policy mapping.                                        *)
(***************************************************************************)

\* C9: update_preferences(domain, complexity_threshold, accuracy_threshold)
\* changes only the supplied fields of the named domain's entry; an omitted
\* field keeps its value (the "default" entry's value for a new entry), and
\* every other entry, "default" included, is left as it was, at every update.
C9_UpdateTouchesOnlySuppliedFields ==
    [][Len(update_log') = Len(update_log) + 1 =>
          LET u == update_log'[Len(update_log')]
              old == IF u.domain \in DOMAIN default_preferences
                     THEN policy_objects[default_preferences[u.domain]]
                     ELSE policy_objects[default_preferences[DEFAULT]]
              new == policy_objects'[default_preferences'[u.domain]]
          IN  /\ DOMAIN default_preferences' = DOMAIN default_preferences \cup {u.domain}
              /\ new.complexity_threshold =
                     IF u.complexity_threshold = Nothing THEN old.complexity_threshold
                     ELSE The(u.complexity_threshold)
              /\ new.accuracy_threshold =
                     IF u.accuracy_threshold = Nothing THEN old.accuracy_threshold
                     ELSE The(u.accuracy_threshold)
              /\ \A k \in DOMAIN default_preferences \ {u.domain} :
                     policy_objects'[default_preferences'[k]] =
                         policy_objects[default_preferences[k]]]_vars

\* a new entry was created with one field supplied, then updated in its other
\* field, and "default" still holds its initial thresholds
C9_NewEntryUpdatedTwice ==
    /\ Len(update_log) = 2
    /\ update_log[1].domain = GENERAL
    /\ update_log[1].complexity_threshold = Nothing
    /\ update_log[1].accuracy_threshold # Nothing
    /\ update_log[2].domain = GENERAL
    /\ update_log[2].complexity_threshold # Nothing
    /\ update_log[2].accuracy_threshold = Nothing
    /\ policy_objects[default_preferences[GENERAL]] =
           [complexity_threshold |-> The(update_log[2].complexity_threshold),
            accuracy_threshold |-> The(update_log[1].accuracy_threshold)]
    /\ policy_objects[default_preferences[DEFAULT]] =
           InitialPolicyObjects[InitialPreferences[DEFAULT]]

\* C10: after any sequence of update_preferences, get_preferences and
\* select_approach calls the mapping has a "default" entry with both
\* thresholds, every entry there ever was is still there, and a lookup for
\* any domain succeeds, with the "default" entry when the domain has none.
C10_DefaultAlwaysThere ==
    /\ DEFAULT \in DOMAIN default_preferences
    /\ DOMAIN policy_objects[default_preferences[DEFAULT]] =
           {"complexity_threshold", "accuracy_threshold"}
    /\ DOMAIN InitialPreferences \subseteq DOMAIN default_preferences
    /\ \A i \in 1..Len(update_log) : update_log[i].domain \in DOMAIN default_preferences
    /\ call.pc # "raised"
    /\ \A d \in SelectorDomains :
           /\ PrefsOf(default_preferences, d) \in 1..Len(policy_objects)
           /\ Lower(d) \notin DOMAIN default_preferences =>
                  PrefsOf(default_preferences, d) = default_preferences[DEFAULT]
    /\ (call.op = "select_approach" /\ Lower(The(call.domain)) \notin DOMAIN default_preferences)
           => call.prefs = default_preferences[DEFAULT]
    /\ (call.op = "get_preferences" /\ call.domain # Nothing /\ The(call.domain) # <<>>
            /\ The(call.domain) \notin DOMAIN default_preferences)
           => The(call.result) = <<"dict", default_preferences[DEFAULT]>>

\* after an update that added an entry, select_approach has decided for a
\* domain without an entry from the "default" entry
C10_FallbackAfterUpdates ==
    /\ Len(update_log) > 0
    /\ DOMAIN default_preferences # DOMAIN InitialPreferences
    /\ call.op = "select_approach"
    /\ call.pc = "done"
    /\ Lower(The(call.domain)) \notin DOMAIN default_preferences
    /\ call.prefs = default_preferences[DEFAULT]


(***************************************************************************)
(* Claims about solve_with_reasoning.                                      *)
(***************************************************************************)

\* the word limit in the priority order of C7: the caller's max_words_per_step
\* if one is given, else the complexity for CoD with adaptive_word_limit on,
\* else the default limit of default_settings
ClaimedWordLimit ==
    IF "max_words_per_step" \in DOMAIN solve.kwargs
           /\ solve.kwargs["max_words_per_step"] # Nothing
    THEN solve.kwargs["max_words_per_step"]
    ELSE IF solve.approach = CoD /\ LocalSettings(solve.kwargs)["adaptive_word_limit"]
    THEN Just(solve.complexity)
    ELSE default_settings["max_words_per_step"]

\* C7: in every solve the word limit is the caller's max_words_per_step when
\* the caller gave one; otherwise the complexity score when the approach is
\* CoD and adaptive_word_limit is on; otherwise the default limit 8.
C7_WordLimitPriority ==
    solve.pc \in {"chat", "done"} => solve.word_limit = ClaimedWordLimit

\* the response before and after the first occurrence of the separator
BeforeFirstSeparator(response) ==
    SubSeq(response, 1, Min({i \in 1..Len(response) : OccursAt(response, i, Separator)}) - 1)
AfterFirstSeparator(response) ==
    Drop(response, Min({i \in 1..Len(response) : OccursAt(response, i, Separator)})
                       + Len(Separator) - 1)

\* C8: for every response that contains "####", solve returns as reasoning
\* the stripped text before the first "####" (cut to the word limit where
\* enforcement applies) and as answer the stripped text of everything after
\* the first "####", a second "####" and what follows it included.
C8_SplitAtFirstSeparator ==
    (solve.pc = "done" /\ Contains(The(solve.full_response), Separator)) =>
        /\ The(solve.result).final_answer =
               Strip(AfterFirstSeparator(The(solve.full_response)))
        /\ The(solve.result).reasoning_steps =
               EnforcedReasoning(LocalSettings(solve.kwargs), solve.approach, solve.word_limit,
                                 Strip(BeforeFirstSeparator(The(solve.full_response))))


\* a solve of the lollipop problem for the domain "math" that leaves the
\* approach to the selector, with the thresholds of __init__ and no recorded
\* accuracy
LollipopSolve ==
    /\ solve.pc \in {"chat", "done"}
    /\ solve.problem = LollipopProblem
    /\ solve.domain = MATH
    /\ ~ApproachGiven(LocalSettings(solve.kwargs))
    /\ \A i \in DOMAIN inference_records : inference_records[i].is_correct = Nothing

\* C17 as stated: for domain "math" with default thresholds and no accuracy
\* history, the lollipop problem gets the estimate 6, which does not exceed
\* the threshold of "math", and CoD is selected.
C17_LollipopEstimateSix ==
    LollipopSolve =>
        /\ solve.complexity = 6
        /\ solve.complexity <= DomainPolicy(MATH).complexity_threshold
        /\ solve.approach = CoD

\* C17 amended: the estimate is 7 (the base 6 times the question factor 1.2,
\* rounded), which equals the threshold 7 of "math" and so does not exceed
\* it, and CoD is selected by default.
C17_LollipopEstimateSeven ==
    LollipopSolve =>
        /\ solve.complexity = 7
        /\ DomainPolicy(MATH).complexity_threshold = 7
        /\ solve.approach = CoD
        /\ solve.approach_reason = DefaultVerdict[2]

\* the lollipop problem has been handed to the model with a CoD prompt
C17_LollipopAsked ==
    /\ LollipopSolve
    /\ solve.pc = "chat"
    /\ solve.selector_calls = 1

(***************************************************************************)
(* Claims about the error handling and the frame of a solve.               *)
(***************************************************************************)

\* the request in progress carries no problem text: completions without a
\* prompt or with an empty one, chat and messages without messages or without
\* a user message that has content, solve_with_reasoning with problem ""
NoProblemText ==
    /\ solve.entry # "none"
    /\ IF solve.entry = "solve_with_reasoning" THEN solve.problem = <<>>
       ELSE ProblemOf(solve.entry, solve.input) = <<>>

\* the calls a request has made to the estimator, the selector, the example
\* database, the model and the analytics service
CollaboratorCalls ==
    solve.estimator_calls + solve.selector_calls + solve.examples_calls
        + solve.llm_calls + solve.events

\* the errors for an input the caller must not give
CallerErrors ==
    { Just("ValueError: Prompt is required"),
      Just("ValueError: Messages are required"),
      Just("ValueError: No user message found in the provided messages") }

\* C18: a request without problem text is in no other state than rejected
\* with a caller error, and has then called none of the estimator, the
\* selector, the example database, the model and the analytics service.
C18_NoProblemRejectedAtOnce ==
    NoProblemText =>
        /\ solve.pc = "raised"
        /\ solve.error \in CallerErrors
        /\ CollaboratorCalls = 0
        /\ inference_records = <<>>

\* the request to the model of the solve in progress has failed
ProviderFailed == solve.provider_error # Nothing

\* C19: when the request to the model of a solve fails, the solve ends raised
\* with the very exception the provider raised, the model has been asked
\* exactly once, and the step that fails records no inference, nor does the
\* solve have one recorded.
C19_ProviderFailurePropagates ==
    /\ [](ProviderFailed =>
             /\ solve.pc = "raised"
             /\ solve.error = solve.provider_error
             /\ solve.llm_calls = 1
             /\ solve.events = 0
             /\ solve.result = Nothing)
    /\ [][(~ProviderFailed /\ ProviderFailed') =>
              /\ solve.pc = "chat"
              /\ inference_records' = inference_records]_vars

\* a solve that entered through chat has failed with the provider's time-out
C19_ChatTimedOut ==
    /\ ProviderFailed
    /\ solve.entry = "chat"
    /\ solve.error = Just("TimeoutError")
    /\ solve.estimator_calls = 1

\* the strategy of the solve in progress is CoD and enforce_format is on
TerseAndEnforced ==
    /\ solve.approach = CoD
    /\ LocalSettings(solve.kwargs)["enforce_format"]

\* the stripped text before the separator in the response of the model
StrippedReasoning == ResponseReasoning(The(solve.full_response))

\* the row record_inference added for the solve that has just completed
RecordedInference == inference_records[Len(inference_records)]

\* C20: a solve runs the enforcer only when its approach is CoD and
\* enforce_format is on; a completed solve has run it and has an adherence
\* report exactly in that case, and in every other case it returns the
\* stripped text before the separator as its reasoning and hands no adherence
\* report (None) to record_inference.
C20_EnforcementOnlyForTerse ==
    /\ solve.enforcer_calls > 0 => TerseAndEnforced
    /\ solve.pc = "done" =>
           /\ (solve.enforcer_calls = 1 /\ solve.adherence # Nothing) <=> TerseAndEnforced
           /\ (TerseAndEnforced /\ solve.word_limit # Nothing) =>
                  /\ The(solve.result).reasoning_steps =
                         enforce_word_limit(StrippedReasoning, The(solve.word_limit))
                  /\ solve.adherence =
                         Just(analyze_adherence(The(solve.result).reasoning_steps,
                                                The(solve.word_limit)))
           /\ ~TerseAndEnforced =>
                  /\ solve.enforcer_calls = 0
                  /\ solve.adherence = Nothing
                  /\ The(solve.result).reasoning_steps = StrippedReasoning
           /\ solve.events = 1 =>
                  /\ inference_records # <<>>
                  /\ The(RecordedInference.meta_data).adherence = solve.adherence
                  /\ RecordedInference.reasoning_steps = The(solve.result).reasoning_steps

\* the response of eleven words in its first step has come back to a CoD
\* solve with enforce_format off: the reasoning is returned as it came, and
\* the inference is recorded without a report
C20_TerseNotEnforced ==
    /\ solve.pc = "done"
    /\ solve.approach = CoD
    /\ ~LocalSettings(solve.kwargs)["enforce_format"]
    /\ solve.events = 1
    /\ Len(Split(The(solve.result).reasoning_steps)) > 11
    /\ The(RecordedInference.meta_data).adherence = Nothing

\* the model has answered the solve in progress without the separator
AnsweredWithoutSeparator ==
    /\ solve.full_response # Nothing
    /\ ~Contains(The(solve.full_response), Separator)

\* C21: for every response without "####", solve returns the whole stripped
\* response as its reasoning (cut to the word limit where enforcement
\* applies) and "No clear answer found" as its answer, and raises no error.
C21_NoSeparatorNoAnswer ==
    AnsweredWithoutSeparator =>
        /\ solve.pc = "done"
        /\ solve.error = Nothing
        /\ The(solve.result).final_answer = <<"No clear answer found">>
        /\ The(solve.result).reasoning_steps =
               IF TerseAndEnforced /\ solve.word_limit # Nothing
               THEN enforce_word_limit(Strip(The(solve.full_response)), The(solve.word_limit))
               ELSE Strip(The(solve.full_response))

\* the caller of the solve in progress has forced CoD or CoT
ApproachForced ==
    /\ solve.pc \in {"chat", "done", "raised"}
    /\ solve.request # Nothing
    /\ "approach" \in DOMAIN solve.kwargs
    /\ solve.kwargs["approach"] \in {Just(CoD), Just(CoT)}

\* C22: when the caller forces CoD or CoT, the solve uses that approach and
\* never calls the selector (which alone queries the recorded performance);
\* the result of a solve that returns has the forced approach and carries
\* reasoning, answer, token count, complexity and word limit.
C22_ForcedApproachUsed ==
    ApproachForced =>
        /\ solve.approach = The(solve.kwargs["approach"])
        /\ solve.selector_calls = 0
        /\ solve.approach_reason = <<"Manually specified">>
        /\ solve.pc = "done" =>
               /\ The(solve.result).approach = The(solve.kwargs["approach"])
               /\ DOMAIN The(solve.result) =
                      {"reasoning_steps", "final_answer", "token_count", "approach",
                       "complexity", "word_limit"}
               /\ The(solve.result).complexity = solve.complexity
               /\ The(solve.result).word_limit = solve.word_limit

\* a solve with CoT forced has returned for a problem whose estimate is within
\* the threshold of its domain, where the selector would have said CoD
C22_ForcedCoTReturned ==
    /\ ApproachForced
    /\ solve.pc = "done"
    /\ solve.approach = CoT
    /\ solve.complexity <= DomainPolicy(solve.domain).complexity_threshold

\* the prompt create_cod_prompt or create_cot_prompt builds for the solve in
\* progress
BuiltPrompt ==
    IF solve.approach = CoD
    THEN create_cod_prompt(solve.problem, solve.domain, solve.word_limit,
                           get_examples(solve.domain, solve.approach))
    ELSE create_cot_prompt(solve.problem, solve.domain,
                           get_examples(solve.domain, solve.approach))

\* a turn of the request begins with the given instructions
RequestCarries(instructions) ==
    \E i \in DOMAIN The(solve.request).messages :
        LET content == The(solve.request).messages[i].content
        IN  /\ Len(content) >= Len(instructions)
            /\ SubSeq(content, 1, Len(instructions)) = instructions

\* C24: in every solve the turns handed to the model carry the instructions
\* built for the request: for CoD the system text with the word limit of the
\* solve and the '####' instruction, for CoT the step-by-step system text with
\* the same separator.
C24_RequestCarriesInstructions ==
    (solve.pc = "chat" /\ solve.request # Nothing) =>
        /\ solve.approach = CoD =>
               BuiltPrompt.system[2] = solve.word_limit
        /\ RequestCarries(BuiltPrompt.system)

(***************************************************************************)
(* Further claims about the format enforcer and the estimator.            *)
(***************************************************************************)

\* the lines of the input text
InputLines == SplitOn(reasoning, NL)

\* no line of the input text begins with a step marker: a number and a dot, or
\* "-" or "*" (each also behind blanks), "Step N:" or a bullet
NoLineOpensStep == \A i \in DOMAIN InputLines : ~OpensStep(InputLines[i])

\* the stripped non-blank lines of the input text
NonBlankLines == StrippedNonBlank(InputLines, 1)

\* C23: when no line of the text begins with a step marker, the text is
\* segmented into exactly one step per non-blank line, a number with a dot or
\* a bullet inside a line notwithstanding; a text of one line is then one
\* step, and its adherence_rate is 1.0 when it has at most N words and 0.0
\* otherwise.
C23_OneStepPerLineWithoutMarkers ==
    (fmt_pc \in {"enforced", "analyzed"} /\ NoLineOpensStep) =>
        /\ Len(enforced_steps) = Len(NonBlankLines)
        /\ Len(InputSteps) = Len(NonBlankLines)
        /\ \A i \in DOMAIN InputSteps : Strip(InputSteps[i]) = NonBlankLines[i]
        /\ Len(NonBlankLines) = 1 /\ Len(InputLines) = 1 =>
               analyze_adherence(reasoning, max_words_per_step).adherence_rate =
                   IF Len(Split(reasoning)) <= max_words_per_step
                   THEN <<1, 1>> ELSE <<0, 1>>

\* the quotient q is at least, at most the quotient r
AtLeast(q, r) == q[1] * r[2] >= r[1] * q[2]
AtMost(q, r) == AtLeast(r, q)

\* the four impact factors of the problem estimated: length, indicator,
\* question, sentence complexity
FourFactors ==
    << length_factor(cx_problem), indicator_factor(cx_problem, cx_domain),
       question_factor(cx_problem), sentence_complexity_factor(cx_problem) >>

\* C25 as stated: for every problem and domain each of the four impact
\* factors the estimator computes is at least 1.0.
C25_EveryFactorAtLeastOne ==
    cx_estimate # Nothing =>
        \A i \in 1..4 : AtLeast(FourFactors[i], <<1, 1>>)

\* C25 amended: the indicator factor lies in 1.0..1.8 and the question factor
\* is at least 1.0; the length factor is words/50, from 0 up to 2, and the
\* sentence factor from 0 up to 1.5, both below 1.0 for a short text; the
\* largest of the four, which the estimate uses, is at least 1.0, and the
\* report of analyze_problem holds the same four factors.
C25_FactorRanges ==
    cx_estimate # Nothing =>
        LET f == FourFactors
        IN  /\ AtLeast(f[2], <<1, 1>>) /\ AtMost(f[2], <<9, 5>>)
            /\ AtLeast(f[3], <<1, 1>>)
            /\ AtLeast(f[1], <<0, 1>>) /\ AtMost(f[1], <<2, 1>>)
            /\ AtLeast(f[4], <<0, 1>>) /\ AtMost(f[4], <<3, 2>>)
            /\ word_count(cx_problem) < 15 =>
                   /\ ~AtLeast(f[1], <<1, 1>>)
                   /\ ~AtLeast(f[4], <<1, 1>>)
            /\ AtLeast(RMaxOf(f), <<1, 1>>)
            /\ cx_analysis # Nothing =>
                   << The(cx_analysis).length_factor, The(cx_analysis).indicator_factor,
                      The(cx_analysis).question_factor,
                      The(cx_analysis).sentence_complexity_factor >> = f

\* a problem of one sentence of thirty words and another word has been
\* estimated and analyzed: its length factor is below 1.0 and its sentence
\* factor is at its cap
C25_ShortTextLongSentence ==
    /\ cx_estimate # Nothing
    /\ cx_analysis # Nothing
    /\ ~AtLeast(The(cx_analysis).length_factor, <<1, 1>>)
    /\ The(cx_analysis).sentence_complexity_factor = <<3, 2>>

(***************************************************************************)
(* Further claims about the selector's policy.                             *)
(***************************************************************************)
\* the positions of the updates logged for the domain string d
UpdatesOf(d) == {i \in 1..Len(update_log) : update_log[i].domain = d}

\* the last update logged for d
LastUpdateOf(d) ==
    update_log[CHOOSE i \in UpdatesOf(d) : \A j \in UpdatesOf(d) : j <= i]

\* the last update_preferences call for d gave both thresholds
BothGiven(d) ==
    /\ UpdatesOf(d) # {}
    /\ LastUpdateOf(d).complexity_threshold # Nothing
    /\ LastUpdateOf(d).accuracy_threshold # Nothing

\* the thresholds that call gave
GivenThresholds(d) ==
    [complexity_threshold |-> The(LastUpdateOf(d).complexity_threshold),
     accuracy_threshold |-> The(LastUpdateOf(d).accuracy_threshold)]

\* C26: after update_preferences(d, complexity_threshold=t, accuracy_threshold=a)
\* every select_approach call that starts later for the same domain string d
\* decides against the thresholds t and a, and every later get_preferences(d)
\* returns them.
C26_UpdateGovernsLaterCalls ==
    [][(/\ call.pc = "idle"
        /\ call'.pc # "idle"
        /\ call'.domain # Nothing
        /\ BothGiven(The(call'.domain)))
       => LET d == The(call'.domain)
          IN  /\ call'.op = "select_approach" =>
                     policy_objects[call'.prefs] = GivenThresholds(d)
              /\ call'.op = "get_preferences" =>
                     /\ The(call'.result)[1] = "dict"
                     /\ policy_objects[The(call'.result)[2]] = GivenThresholds(d)]_vars

\* the rows the suspended call's query can return hold a CoD accuracy, so the
\* call compares it with the accuracy threshold when it resumes
ComparesAccuracy ==
    /\ call.pc = "query"
    /\ CodAccuracies(get_performance_by_domain(inference_records, The(call.domain)))
           # {Nothing}

\* C27: a select_approach call suspended on the performance query decides from
\* one policy version: the accuracy threshold it compares against when it
\* resumes is the one of the policy it started with, the policy whose
\* complexity threshold it compared against before the query, whatever
\* update_preferences did in between.
C27_OnePolicyVersionPerCall ==
    [][(ComparesAccuracy /\ call'.pc = "done")
       => /\ policy_objects[call.prefs].accuracy_threshold =
                 The(call.started_with).accuracy_threshold
          /\ \E a \in CodAccuracies(get_performance_by_domain(inference_records,
                                                               The(call.domain))) :
                 call'.result = Just(VerdictAfterQuery(a, The(call.started_with)))]_vars

(***************************************************************************)
(* Further claims about solve_with_reasoning and the interfaces.           *)
(***************************************************************************)
\* the verdicts select_approach gives for a solve of the problem and domain
\* with the history recorded so far
VerdictsNow(problem, domain) ==
    select_approach(default_preferences, policy_objects, inference_records, problem,
                    domain, Just(estimate_complexity(problem, domain)))

\* the solve in progress had its approach chosen by the selector
AutoSelected ==
    /\ solve.pc \in {"chat", "done", "raised"}
    /\ solve.request # Nothing
    /\ ~ApproachGiven(LocalSettings(solve.kwargs))

LimitPassedAsNone ==
    /\ "max_words_per_step" \in DOMAIN solve.kwargs
    /\ solve.kwargs["max_words_per_step"] = Nothing

\* C29: in every solve the word limit resolved is an integer of at least 1,
\* in the request, when the enforcer runs (which then raises no TypeError) and
\* in the result returned; with max_words_per_step passed as None the limit
\* is the complexity where the adaptive rule applies and the default 8
\* otherwise.
C29_WordLimitIsAnInteger ==
    (solve.pc \in {"chat", "done", "raised"} /\ solve.request # Nothing) =>
        /\ solve.word_limit # Nothing
        /\ The(solve.word_limit) \in Nat \ {0}
        /\ solve.error # Just("TypeError")
        /\ solve.pc = "done" => The(solve.result).word_limit = solve.word_limit
        /\ LimitPassedAsNone =>
               solve.word_limit =
                   IF LocalSettings(solve.kwargs)["adaptive_word_limit"] /\ solve.approach = CoD
                   THEN Just(solve.complexity)
                   ELSE default_settings["max_words_per_step"]

\* an interface was called with a request it accepts: a non-empty prompt, or
\* messages with a user message
ValidInterfaceRequest ==
    /\ solve.entry \in {"completions", "chat", "messages"}
    /\ InputError(solve.entry, solve.input) = Nothing

\* C30: for every valid request to completions, chat or messages, with or
\* without a model and with or without a domain keyword, the interface
\* raises nothing of its own (an error is the provider's or the solve's), it
\* has called solve_with_reasoning once, with the caller's domain ("general"
\* when none is given), and what it returns is built from the solve's result.
C30_InterfacesServeValidRequests ==
    ValidInterfaceRequest =>
        /\ solve.error \in {Nothing, Just("TypeError")} \cup {Just(e) : e \in ProviderErrors}
        /\ solve.estimator_calls = 1
        /\ solve.domain = IF "domain" \in DOMAIN solve.kwargs THEN solve.kwargs["domain"]
                          ELSE GENERAL
        /\ solve.pc = "done" =>
               solve.response = Just(WrapperResponse(solve.entry, solve.model, solve.input,
                                                     The(solve.result)))
====
